---- MODULE Spec2Model ----
(***************************************************************************)
(* Model of the email-builder "Document Component Identity & Mutation      *)
(* Engine" (src/email-builder/src/lib/mjmlContentUpdater.js).              *)
(*                                                                         *)
(* Text is held run-length encoded: a string is a sequence of runs         *)
(* [c |-> character, n |-> repetitions], adjacent runs having different    *)
(* characters.  "aa b" is <<[c|->"a",n|->2],[c|->" ",n|->1],[c|->"b",n|->1]>>.*)
(* The encoding lets strings around the 5000-character limit be handled.   *)
(*                                                                         *)
(* A parsed document is the sequence of its nodes in document order        *)
(* (depth-first, pre-order); every node carries its depth, so the subtree  *)
(* of node i is the maximal run of deeper nodes that follows it.           *)
(***************************************************************************)
EXTENDS Integers, Sequences, FiniteSets, TLC

\* ------------------------------------------------------------------------
\* Strings
\* ------------------------------------------------------------------------

\* DEFAULT_VALIDATION.maxLength
MaxLength == 5000

SP == " "
NL == "\n"

\* the characters matched by \s and removed by String.prototype.trim
IsWs(c) == c \in {SP, NL}

R(c, n) == [c |-> c, n |-> n]

RECURSIVE StrLen(_)
StrLen(s) == IF s = <<>> THEN 0 ELSE Head(s).n + StrLen(Tail(s))

\* s + t
Concat(s, t) ==
    IF s = <<>> THEN t
    ELSE IF t = <<>> THEN s
    ELSE IF s[Len(s)].c = t[1].c
         THEN SubSeq(s, 1, Len(s) - 1)
              \o <<R(t[1].c, s[Len(s)].n + t[1].n)>>
              \o Tail(t)
         ELSE s \o t

\* String.prototype.trim
Trim(s) ==
    LET keep == {i \in 1..Len(s) : ~IsWs(s[i].c)}
    IN  IF keep = {} THEN <<>>
        ELSE LET lo == CHOOSE i \in keep : \A j \in keep : i <= j
                 hi == CHOOSE i \in keep : \A j \in keep : j <= i
             IN  SubSeq(s, lo, hi)

\* s.replace(/\s+/g, ' ')
RECURSIVE CollapseWs(_)
CollapseWs(s) ==
    IF s = <<>> THEN <<>>
    ELSE IF IsWs(Head(s).c)
         THEN IF Len(s) > 1 /\ IsWs(s[2].c)
              THEN CollapseWs(Tail(s))
              ELSE <<R(SP, 1)>> \o CollapseWs(Tail(s))
         ELSE <<Head(s)>> \o CollapseWs(Tail(s))

\* String.prototype.includes
Includes(hay, needle) ==
    LET k == Len(needle)
    IN  \/ k = 0
        \/ /\ k = 1
           /\ \E j \in 1..Len(hay) :
                 hay[j].c = needle[1].c /\ hay[j].n >= needle[1].n
        \/ /\ k >= 2
           /\ \E j \in 1..(Len(hay) - k + 1) :
                 /\ hay[j].c = needle[1].c /\ hay[j].n >= needle[1].n
                 /\ hay[j + k - 1].c = needle[k].c
                 /\ hay[j + k - 1].n >= needle[k].n
                 /\ \A m \in 2..(k - 1) : hay[j + m - 1] = needle[m]

\* a possibly missing (undefined) string argument
Undefined == [def |-> FALSE, s |-> <<>>]
Val(s) == [def |-> TRUE, s |-> s]

\* normalizeText: String(str || '').trim().replace(/\s+/g, ' ')
normalizeText(v) == CollapseWs(Trim(IF v.def THEN v.s ELSE <<>>))

\* ------------------------------------------------------------------------
\* Documents
\* ------------------------------------------------------------------------

\* A logical id is the sequence of its "-"-separated parts: "a-copy-t1-r1"
\* is <<"a", "copy", "t1", "r1">>.  The empty sequence is the missing id.
\* A token of the mj-class attribute is
\*    kind "ed"  : editable-<id>
\*    kind "xed" : a class name that merely contains the text editable-<id>
\*                 after a prefix (it does not start with editable-)
\*    kind "cls" : any other class name
Tok(kind, id) == [kind |-> kind, id |-> id]
Ed(id) == Tok("ed", id)

\* nodes: an element (k = "el") or a text run (k = "tx")
El(d, tag, cls, attrs) ==
    [k |-> "el", d |-> d, tag |-> tag, cls |-> cls, attrs |-> attrs, s |-> <<>>]
Tx(d, s) ==
    [k |-> "tx", d |-> d, tag |-> "#text", cls |-> <<>>, attrs |-> "", s |-> s]

Range(f) == {f[i] : i \in DOMAIN f}

\* last index of the subtree rooted at node i
SubtreeEnd(nodes, i) ==
    LET stop == {j \in (i + 1)..Len(nodes) : nodes[j].d <= nodes[i].d}
    IN  IF stop = {} THEN Len(nodes)
        ELSE (CHOOSE j \in stop : \A m \in stop : j <= m) - 1

\* index of the parent element of node i (0: the <root> wrapper)
ParentOf(nodes, i) ==
    LET up == {j \in 1..(i - 1) : nodes[j].d < nodes[i].d}
    IN  IF up = {} THEN 0 ELSE CHOOSE j \in up : \A m \in up : m <= j

\* indices of the child nodes of node i, ascending
ChildrenOf(nodes, i) ==
    {j \in 1..Len(nodes) : ParentOf(nodes, j) = i}

\* Node.textContent of the element at index i
RECURSIVE TextFrom(_, _, _)
TextFrom(nodes, lo, hi) ==
    IF lo > hi THEN <<>>
    ELSE Concat(nodes[lo].s, TextFrom(nodes, lo + 1, hi))

textContent(nodes, i) == TextFrom(nodes, i + 1, SubtreeEnd(nodes, i))

\* the XML parser never yields two adjacent text nodes: the serialized text
\* of adjacent sibling text runs is read back as one run
RECURSIVE MergeText(_)
MergeText(nodes) ==
    IF Len(nodes) < 2 THEN nodes
    ELSE IF /\ nodes[1].k = "tx" /\ nodes[2].k = "tx"
            /\ nodes[1].d = nodes[2].d
         THEN MergeText(<<Tx(nodes[1].d, Concat(nodes[1].s, nodes[2].s))>>
                        \o SubSeq(nodes, 3, Len(nodes)))
         ELSE <<nodes[1]>> \o MergeText(Tail(nodes))

\* a selector [mj-class~="editable-<id>"] is a syntax error when the id
\* holds a double quote
DQ == "\""
BadSelector(id) == DQ \in Range(id)

\* doc.querySelectorAll('[mj-class~="editable-<id>"]'), in document order
Matches(node, id) ==
    node.k = "el" /\ \E t \in Range(node.cls) : t = Ed(id)

Candidates(nodes, id) == {i \in 1..Len(nodes) : Matches(nodes[i], id)}

Min(S) == CHOOSE x \in S : \A y \in S : x <= y

\* candidates.find(pred): the first candidate satisfying pred, 0 if none
FindFirst(hit) == IF hit = {} THEN 0 ELSE Min(hit)

\* a selection that tries containment before equality
findContainsFirst(nodes, id, content) ==
    LET cands == Candidates(nodes, id)
        contentNorm == normalizeText(content)
        Inc(i) == Includes(normalizeText(Val(textContent(nodes, i))), contentNorm)
        byIncludes == FindFirst({i \in cands : Inc(i)})
    IN  IF cands = {} THEN 0
        ELSE IF Cardinality(cands) = 1 THEN Min(cands)
        ELSE IF contentNorm = <<>> THEN Min(cands)
        ELSE IF byIncludes # 0 THEN byIncludes
        ELSE Min(cands)

\* findEditableElement(doc, editableId, content): index of the element, 0: null
findEditableElement(nodes, id, content) ==
    LET cands == Candidates(nodes, id)
        contentNorm == normalizeText(content)
        Eq(i) == normalizeText(Val(textContent(nodes, i))) = contentNorm
        Inc(i) == Includes(normalizeText(Val(textContent(nodes, i))), contentNorm)
        byContent == FindFirst({i \in cands : Eq(i)})
        byIncludes == FindFirst({i \in cands : Inc(i)})
    IN  IF cands = {} THEN 0
        ELSE IF Cardinality(cands) = 1 THEN Min(cands)
        ELSE IF contentNorm = <<>> THEN Min(cands)
        ELSE IF byContent # 0 THEN byContent
        ELSE IF byIncludes # 0 THEN byIncludes
        ELSE Min(cands)

\* a selection that takes the first candidate whatever the hint is
deleteSelectFirst(nodes, id, content) ==
    IF Candidates(nodes, id) = {} THEN 0 ELSE Min(Candidates(nodes, id))

\* the selection written out inside deleteComponent
deleteSelect(nodes, id, content) ==
    LET cands == Candidates(nodes, id)
        contentNorm == normalizeText(content)
        Eq(i) == normalizeText(Val(textContent(nodes, i))) = contentNorm
        Inc(i) == Includes(normalizeText(Val(textContent(nodes, i))), contentNorm)
        byContent == FindFirst({i \in cands : Eq(i)})
        byIncludes == FindFirst({i \in cands : Inc(i)})
    IN  IF Cardinality(cands) = 1 THEN Min(cands)
        ELSE IF Cardinality(cands) > 1 /\ contentNorm # <<>>
             THEN IF byContent # 0 THEN byContent
                  ELSE IF byIncludes # 0 THEN byIncludes
                  ELSE Min(cands)
        ELSE IF Cardinality(cands) > 0 THEN Min(cands)
        ELSE 0

\* ------------------------------------------------------------------------
\* Source text and results
\* ------------------------------------------------------------------------

\* the source text handed to the engine: "" (kind "empty"), text that is not
\* well-formed XML (kind "bad"), or well-formed markup, held as its parse
EmptyCode == [kind |-> "empty", nodes |-> <<>>]
BadCode == [kind |-> "bad", nodes |-> <<>>]
Doc(nodes) == [kind |-> "doc", nodes |-> nodes]

NoId == <<>>

\* an error message: its kind and what it quotes (the id of a component not
\* found; the length and the limit of a content too long)
Err(kind, id, len) ==
    [kind |-> kind, id |-> id, len |-> len,
     max |-> IF kind = "too_long" THEN MaxLength ELSE 0]
NullErr == [kind |-> "null", id |-> <<>>, len |-> 0, max |-> 0]

\* a failure that hands back no document
FailureDropsDocument(mjmlCode, error) ==
    [ret |-> "returned", success |-> FALSE, mjml |-> EmptyCode, error |-> error,
     newId |-> NoId, target |-> 0]

\* { success: false, mjml: mjmlCode, error, newId: null }
Failure(mjmlCode, error) ==
    [ret |-> "returned", success |-> FALSE, mjml |-> mjmlCode, error |-> error,
     newId |-> NoId, target |-> 0]

\* { success: true, mjml: updatedMjml, error: null, newId }
Success(updatedMjml, newId, target) ==
    [ret |-> "returned", success |-> TRUE, mjml |-> updatedMjml,
     error |-> NullErr, newId |-> newId, target |-> target]

\* an exception that leaves the function
Thrown(mjmlCode) ==
    [ret |-> "threw", success |-> FALSE, mjml |-> mjmlCode, error |-> NullErr,
     newId |-> NoId, target |-> 0]

\* a validation that accepts any non-empty content
validateNoLimit(content) ==
    LET sanitized == Trim(content.s)
    IN  IF StrLen(sanitized) = 0
        THEN [valid |-> FALSE, error |-> Err("empty_content", NoId, 0),
              sanitized |-> sanitized]
        ELSE [valid |-> TRUE, error |-> NullErr, sanitized |-> sanitized]

\* a validation that does not trim
validateUntrimmed(content) ==
    LET sanitized == content.s
    IN  IF StrLen(sanitized) = 0
        THEN [valid |-> FALSE, error |-> Err("empty_content", NoId, 0),
              sanitized |-> sanitized]
        ELSE IF StrLen(sanitized) > MaxLength
        THEN [valid |-> FALSE,
              error |-> Err("too_long", NoId, StrLen(sanitized)),
              sanitized |-> sanitized]
        ELSE [valid |-> TRUE, error |-> NullErr, sanitized |-> sanitized]

\* validateContent(content) under DEFAULT_VALIDATION, for a string content
validateContent(content) ==
    LET sanitized == Trim(content.s)
    IN  IF StrLen(sanitized) = 0
        THEN [valid |-> FALSE, error |-> Err("empty_content", NoId, 0),
              sanitized |-> sanitized]
        ELSE IF StrLen(sanitized) > MaxLength
        THEN [valid |-> FALSE,
              error |-> Err("too_long", NoId, StrLen(sanitized)),
              sanitized |-> sanitized]
        ELSE [valid |-> TRUE, error |-> NullErr, sanitized |-> sanitized]

\* element.textContent = text : every child of node i is replaced by one
\* text run (none when the text is empty)
SetTextContent(nodes, i, text) ==
    SubSeq(nodes, 1, i)
    \o (IF text = <<>> THEN <<>> ELSE <<Tx(nodes[i].d + 1, text)>>)
    \o SubSeq(nodes, SubtreeEnd(nodes, i) + 1, Len(nodes))

\* serializeToString followed by the next parse
Reparse(nodes) == Doc(MergeText(nodes))

updateEditableContent(mjmlCode, editableId, newContent, currentContent) ==
    IF mjmlCode.kind = "empty" \/ editableId = NoId
    THEN Failure(mjmlCode, Err("missing_params", NoId, 0))
    ELSE IF ~newContent.def
    THEN Thrown(mjmlCode)
    ELSE LET validation == validateContent(newContent)
             element == findEditableElement(mjmlCode.nodes, editableId,
                                            currentContent)
         IN  IF ~validation.valid
             THEN Failure(mjmlCode, validation.error)
             ELSE IF mjmlCode.kind = "bad"
             THEN Failure(mjmlCode, Err("invalid_xml", NoId, 0))
             ELSE IF BadSelector(editableId)
             THEN Failure(mjmlCode, Err("exception", NoId, 0))
             ELSE IF element = 0
             THEN Failure(mjmlCode, Err("not_found", editableId, 0))
             ELSE Success(Reparse(SetTextContent(mjmlCode.nodes, element,
                                                 validation.sanitized)),
                          NoId, element)

\* mjClass.split(/\s+/).find(c => c.startsWith('editable-')), <<>> if none
FirstEditable(cls) ==
    LET hit == {i \in 1..Len(cls) : cls[i].kind = "ed"}
    IN  IF hit = {} THEN <<>> ELSE <<cls[Min(hit)]>>

\* currentMjClass.replace(/editable-[^\s]+/, 'editable-' + newId): the first
\* place where the text editable-<something> occurs is rewritten
ReplaceFirstEditable(cls, newId) ==
    LET hit == {i \in 1..Len(cls) : cls[i].kind \in {"ed", "xed"}}
    IN  IF hit = {} THEN cls
        ELSE [cls EXCEPT ![Min(hit)] = Tok(cls[Min(hit)].kind, newId)]

\* an id minted without its suffix
MintBaseOnly(baseId, timestamp, random) == baseId

\* `${baseId}-copy-${timestamp}-${random}`
MintId(baseId, timestamp, random) == baseId \o <<"copy", timestamp, random>>

\* original.cloneNode(true) with the clone's mj-class rewritten
CloneOf(nodes, i, newId) ==
    LET newMjClass == ReplaceFirstEditable(nodes[i].cls, newId)
    IN  <<[nodes[i] EXCEPT
             !.cls = IF newMjClass = <<>> THEN <<Ed(newId)>> ELSE newMjClass]>>
        \o SubSeq(nodes, i + 1, SubtreeEnd(nodes, i))

\* an insertion that always appends to the parent
AppendToParent(nodes, i, clone) ==
    LET last == IF ParentOf(nodes, i) = 0 THEN Len(nodes)
                ELSE SubtreeEnd(nodes, ParentOf(nodes, i))
    IN  SubSeq(nodes, 1, last) \o clone \o SubSeq(nodes, last + 1, Len(nodes))

\* insertBefore(clone, original.nextSibling) / appendChild(clone)
InsertAfter(nodes, i, clone) ==
    SubSeq(nodes, 1, SubtreeEnd(nodes, i))
    \o clone
    \o SubSeq(nodes, SubtreeEnd(nodes, i) + 1, Len(nodes))

duplicateComponent(mjmlCode, editableId, content, timestamp, random) ==
    IF mjmlCode.kind = "empty" \/ editableId = NoId
    THEN Failure(mjmlCode, Err("missing_params", NoId, 0))
    ELSE IF mjmlCode.kind = "bad"
    THEN Failure(mjmlCode, Err("invalid_xml", NoId, 0))
    ELSE IF BadSelector(editableId)
    THEN Failure(mjmlCode, Err("exception", NoId, 0))
    ELSE LET original == findEditableElement(mjmlCode.nodes, editableId, content)
             existingClass == FirstEditable(mjmlCode.nodes[original].cls)
             baseId == IF existingClass # <<>> THEN existingClass[1].id
                       ELSE editableId
             newId == MintId(baseId, timestamp, random)
         IN  IF original = 0
             THEN Failure(mjmlCode, Err("not_found", editableId, 0))
             ELSE Success(Reparse(InsertAfter(mjmlCode.nodes, original,
                                    CloneOf(mjmlCode.nodes, original, newId))),
                          newId, original)

\* a removal that takes the element and leaves its children behind
RemoveElementOnly(nodes, i) ==
    SubSeq(nodes, 1, i - 1) \o SubSeq(nodes, i + 1, Len(nodes))

\* a removal that leaves the element where it is
RemoveNothing(nodes, i) == nodes

\* element.parentNode.removeChild(element)
RemoveChild(nodes, i) ==
    SubSeq(nodes, 1, i - 1) \o SubSeq(nodes, SubtreeEnd(nodes, i) + 1, Len(nodes))

deleteComponent(mjmlCode, editableId, content) ==
    IF mjmlCode.kind = "empty" \/ editableId = NoId
    THEN Failure(mjmlCode, Err("missing_params", NoId, 0))
    ELSE IF mjmlCode.kind = "bad"
    THEN Failure(mjmlCode, Err("invalid_xml", NoId, 0))
    ELSE IF BadSelector(editableId)
    THEN Failure(mjmlCode, Err("exception", NoId, 0))
    ELSE LET element == deleteSelect(mjmlCode.nodes, editableId, content)
         IN  IF element = 0
             THEN Failure(mjmlCode, Err("not_found", editableId, 0))
             ELSE Success(Reparse(RemoveChild(mjmlCode.nodes, element)),
                          NoId, element)

\* ------------------------------------------------------------------------
\* The edit session: a source text and the engine calls applied to it
\* ------------------------------------------------------------------------

VARIABLES
    code,   \* the current source text
    prev,   \* the source text the last call was given
    req,    \* the last call: operation and arguments
    res,    \* what the last call returned
    nops,   \* number of calls made
    gone    \* the last removal of the only bearer of a marker: the logical
            \* id and the text that deleteComponent returned

engineVars == <<code, prev, req, res, nops, gone>>

\* The editor component around the engine: its undo history and the
\* document it has loaded
VARIABLES
    hcode,              \* the code state, as the identity of a source text
    codeHistory,        \* codeHistoryRef.current, oldest snapshot first
    canUndo,            \* the canUndo state
    currentTemplateId,  \* the currentTemplateId state
    urlFetch,           \* the fetch of the template named in the URL
    docGen,             \* number of documents loaded so far
    hprev,              \* codeHistory before the last step
    hact,               \* the last step and the snapshot it pushed
    hsteps,             \* number of steps taken
    hlog                \* the sources since the history was last empty

historyVars == <<hcode, codeHistory, canUndo, currentTemplateId, urlFetch,
                 docGen, hprev, hact, hsteps, hlog>>

\* The preview of the editor component in user mode: the source text, what
\* the compiler made of it, and what the declarator, the extractor and the
\* projector make of both
VARIABLES
    psrc,                \* the text handed to the declarator
    ppre,                \* that text before the last declaration
    pruns,               \* number of times the declarator was applied
    phtml,               \* the compiled document (mjml2html's html)
    pmaps,               \* the mappings last extracted
    preview,             \* the compiled document with its annotations
    editableComponents,  \* the registry parsed from the preview
    clicked,             \* the last message of the interactive layer
    pact,                \* the last step
    psteps,              \* number of steps taken
    plog                 \* the compile passes made: input, output, rank

previewVars == <<psrc, ppre, pruns, phtml, pmaps, preview,
                 editableComponents, clicked, pact, psteps, plog>>

\* The selection of the editor component in user mode
VARIABLES
    selectedComponent,   \* the selectedComponent state
    selprev              \* that state before the last handler ran

selectionVars == <<selectedComponent, selprev>>

\* The source text under the compiler effect and the mode switch
VARIABLES
    tcode,        \* the code state
    isUserMode,   \* the isUserMode state
    pending,      \* a pass of the compiler effect is due
    tagCalls,     \* calls of the tagger since the last document was loaded
    replaced,     \* replacements by the compiler effect since the last
                  \* change of the source text from outside the effect
    tact,         \* the last step
    tsteps        \* number of steps taken

taggerVars == <<tcode, isUserMode, pending, tagCalls, replaced, tact, tsteps>>

\* Saving: what the store is known to hold, and the requests under way
VARIABLES
    originalCodeRef,     \* originalCodeRef.current
    hasUnsavedChanges,   \* the hasUnsavedChanges state
    saving,              \* the save request awaiting the store's response
    autoSaveTimer,       \* the armed auto-save timer
    sact,                \* the last step
    ssteps               \* number of steps taken

saveVars == <<originalCodeRef, hasUnsavedChanges, saving, autoSaveTimer,
              sact, ssteps>>

editorVars == <<selectionVars, taggerVars, saveVars>>

vars == <<engineVars, historyVars, previewVars, editorVars>>

\* number of engine calls in one session
MaxOps == 2

\* texts
Hi == <<R("H", 1), R("i", 1)>>
Hello == <<R("H", 1), R("e", 1), R("l", 2), R("o", 1)>>
Hey == <<R("H", 1), R("e", 1), R("y", 1)>>
There == <<R("t", 1), R("h", 1), R("e", 1), R("r", 1), R("e", 1)>>
HiThereWide == Hi \o <<R(SP, 2), R(NL, 1), R(SP, 1)>> \o There
Indent == <<R(NL, 1), R(SP, 2)>>

\* logical ids
g == <<"greeting">>
h == <<"text-1">>
absent == <<"text-9">>
quoted == <<"greeting", DQ>>
gCopy == MintId(g, "t1", "r1")

\* result of Date.now() and of Math.random().toString(36).substr(2, 5)
Stamps == {"t1", "t2"}
Randoms == {"r1", "r2"}

\* <tag mj-class="cls">text</tag> at depth d
Leaf(d, tag, cls, text) ==
    <<El(d, tag, cls, "")>> \o (IF text = <<>> THEN <<>> ELSE <<Tx(d + 1, text)>>)

Mjml == <<El(1, "mjml", <<>>, "")>>

\* the two-greetings document of the specification, with a third element
DocGreetings ==
    Mjml \o Leaf(2, "mj-text", <<Ed(g)>>, Hi)
         \o Leaf(2, "mj-text", <<Ed(g)>>, Hello)
         \o Leaf(2, "mj-button", <<Ed(h)>>, Hi)

\* candidates of which one contains the hint and a later one equals it,
\* with white space between the elements
DocOverlap ==
    Mjml \o <<Tx(2, Indent)>>
         \o Leaf(2, "mj-text", <<Ed(g)>>, HiThereWide)
         \o <<Tx(2, Indent)>>
         \o Leaf(2, "mj-text", <<Tok("cls", <<"hero">>), Ed(g)>>, Hi)
         \o <<Tx(2, Indent)>>
         \o <<El(2, "mj-button", <<Ed(g)>>, "href"), Tx(3, There)>>
         \o <<Tx(2, <<R(NL, 1)>>)>>

\* marked elements inside marked elements, and markup inside a text element
DocNested ==
    Mjml \o <<El(2, "mj-section", <<Ed(h)>>, "")>>
         \o <<El(3, "mj-text", <<Ed(g)>>, ""), Tx(4, Hi \o <<R(SP, 1)>>)>>
         \o Leaf(4, "b", <<Ed(h)>>, There)
         \o Leaf(3, "mj-text", <<Ed(h)>>, Hello)
         \o Leaf(2, "mj-image", <<Ed(g)>>, <<>>)

\* elements carrying several tokens, a class that merely contains the text
\* editable-, and an authored id that has the shape of a minted one
DocTokens ==
    Mjml \o Leaf(2, "mj-text", <<Ed(h), Ed(g)>>, Hi)
         \o Leaf(2, "mj-text", <<Tok("xed", <<"old">>), Ed(g)>>, Hello)
         \o Leaf(2, "mj-text", <<Ed(gCopy)>>, Hi)

InitCodes ==
    {EmptyCode, BadCode, Doc(DocGreetings), Doc(DocOverlap), Doc(DocNested),
     Doc(DocTokens)}

Ids == {g, h, absent, quoted, NoId}

Hints ==
    {Undefined, Val(<<R(SP, 2)>>), Val(Hi),
     Val(<<R(SP, 1)>> \o Hello \o <<R(NL, 1)>>), Val(There)}

\* newContent values: a missing argument, empty, blank, plain, padded, and
\* strings around the length limit
Contents ==
    {Undefined, Val(<<>>), Val(<<R(SP, 3)>>), Val(Hey),
     Val(<<R(SP, 1)>> \o Hey \o <<R(NL, 1), R(SP, 1)>>),
     Val(<<R("a", MaxLength)>>), Val(<<R("a", MaxLength + 1)>>),
     Val(<<R("a", MaxLength), R(SP, 1)>>)}

\* the calls made: every id with every hint, and every id with every
\* content (with every clock and random value)
UpdateArgs ==
    (Ids \X Hints \X {Val(Hey)}) \cup (Ids \X {Undefined} \X Contents)

DuplicateArgs ==
    (Ids \X Hints \X {"t1"} \X {"r1"})
    \cup (Ids \X {Undefined} \X Stamps \X Randoms)

DeleteArgs == Ids \X Hints

NoReq ==
    [op |-> "none", id |-> NoId, hint |-> Undefined, content |-> Undefined,
     ts |-> "", rnd |-> ""]

NoRes ==
    [ret |-> "none", success |-> FALSE, mjml |-> EmptyCode, error |-> NullErr,
     newId |-> NoId, target |-> 0]

NoneGone == [id |-> NoId, doc |-> EmptyCode]

\* const [code, setCode] = useState(DEFAULT_CODE)
DEFAULT_CODE == 0

NoTemplate == "null"

\* a snapshot of the history: the source text, and for the statement of
\* the properties the number of the document it was taken from
Snapshot(text, doc) == [text |-> text, doc |-> doc]

NoAct == [op |-> "none", snap |-> Snapshot(DEFAULT_CODE, 0)]

\* a compiled document: its nodes, and per node the data-editable
\* attributes it bears (NoAnn: none)
NoIndex == "null"
NoAnn == [editable |-> FALSE, id |-> <<>>, type |-> "", index |-> NoIndex]
Html(nodes) == [nodes |-> nodes, ann |-> [i \in 1..Len(nodes) |-> NoAnn]]

NoClick ==
    [id |-> <<>>, index |-> NoIndex, node |-> 0, found |-> FALSE,
     component |-> 0]

\* user mode off: nothing compiled, nothing extracted
NoPreview ==
    /\ psrc = EmptyCode
    /\ ppre = EmptyCode
    /\ pruns = 0
    /\ phtml = Html(<<>>)
    /\ pmaps = <<>>
    /\ preview = Html(<<>>)
    /\ editableComponents = <<>>
    /\ clicked = NoClick
    /\ pact = "none"
    /\ psteps = 0
    /\ plog = {}

\* const [selectedComponent, setSelectedComponent] = useState(null)
NoComponent == [id |-> NoId, content |-> Undefined]

\* nothing selected
NoSelection ==
    /\ selectedComponent = NoComponent
    /\ selprev = NoComponent

\* the last step of the source text: what it was, whether it called the
\* tagger, whether it replaced the source text
TStep(op, called, updated) == [op |-> op, called |-> called, updated |-> updated]

\* admin mode on an empty text, nothing due
NoTagging ==
    /\ tcode = EmptyCode
    /\ isUserMode = FALSE
    /\ pending = FALSE
    /\ tagCalls = 0
    /\ replaced = 0
    /\ tact = TStep("none", FALSE, FALSE)
    /\ tsteps = 0

\* no request under way; a request holds the code of the render that
\* started it
NoSave == [inflight |-> FALSE, kind |-> "none", code |-> DEFAULT_CODE]
Request(kind, text) == [inflight |-> TRUE, kind |-> kind, code |-> text]

\* nothing to save, no timer armed
NoSaving ==
    /\ originalCodeRef = DEFAULT_CODE
    /\ hasUnsavedChanges = FALSE
    /\ saving = NoSave
    /\ autoSaveTimer = FALSE
    /\ sact = "none"
    /\ ssteps = 0

EditorIdle == NoSelection /\ NoTagging /\ NoSaving

\* no call of the engine yet
EngineIdle ==
    /\ code = EmptyCode /\ prev = EmptyCode
    /\ req = NoReq /\ res = NoRes /\ nops = 0 /\ gone = NoneGone

\* the record of a run of mutations followed by undos: s lists the source
\* text before the first mutation and the text each mutation gave, k counts
\* the undos after them; on is false once the source changed otherwise
Recorded(s, k) == [on |-> TRUE, s |-> s, k |-> k]

\* the record after n edits of the default document
Sources(n) == Recorded([i \in 1..(n + 1) |-> DEFAULT_CODE + i - 1], 0)

\* the editor component as it is mounted, without a template in the URL
Mounted ==
    /\ hcode = DEFAULT_CODE
    /\ codeHistory = <<>>
    /\ canUndo = FALSE
    /\ currentTemplateId = NoTemplate
    /\ urlFetch = "none"
    /\ docGen = 0
    /\ hprev = <<>>
    /\ hact = NoAct
    /\ hsteps = 0
    /\ hlog = Sources(0)

Init ==
    /\ code \in InitCodes
    /\ prev = code
    /\ req = NoReq
    /\ res = NoRes
    /\ nops = 0
    /\ gone = NoneGone
    /\ Mounted
    /\ NoPreview
    /\ EditorIdle

\* the caller keeps the returned text when a result is returned (on
\* failure that is the text it passed in); a thrown exception leaves the
\* caller's text as it was
Kept(result) == IF result.ret = "returned" THEN result.mjml ELSE code

Update ==
    \E a \in UpdateArgs :
        LET result == updateEditableContent(code, a[1], a[3], a[2])
        IN  /\ nops < MaxOps
            /\ nops' = nops + 1
            /\ prev' = code
            /\ req' = [op |-> "update", id |-> a[1], hint |-> a[2],
                       content |-> a[3], ts |-> "", rnd |-> ""]
            /\ res' = result
            /\ code' = Kept(result)
            /\ UNCHANGED gone
            /\ UNCHANGED <<historyVars, previewVars, editorVars>>

Duplicate ==
    \E a \in DuplicateArgs :
        LET result == duplicateComponent(code, a[1], a[2], a[3], a[4])
        IN  /\ nops < MaxOps
            /\ nops' = nops + 1
            /\ prev' = code
            /\ req' = [op |-> "duplicate", id |-> a[1], hint |-> a[2],
                       content |-> Undefined, ts |-> a[3], rnd |-> a[4]]
            /\ res' = result
            /\ code' = Kept(result)
            /\ UNCHANGED gone
            /\ UNCHANGED <<historyVars, previewVars, editorVars>>

Delete ==
    \E a \in DeleteArgs :
        LET result == deleteComponent(code, a[1], a[2])
        IN  /\ nops < MaxOps
            /\ nops' = nops + 1
            /\ prev' = code
            /\ req' = [op |-> "delete", id |-> a[1], hint |-> a[2],
                       content |-> Undefined, ts |-> "", rnd |-> ""]
            /\ res' = result
            /\ code' = Kept(result)
            /\ gone' = IF result.success
                          /\ Cardinality(Candidates(code.nodes, a[1])) = 1
                       THEN [id |-> a[1], doc |-> result.mjml]
                       ELSE gone
            /\ UNCHANGED <<historyVars, previewVars, editorVars>>

Next == Update \/ Duplicate \/ Delete

EngineSpec == Init /\ [][Next]_vars

\* ------------------------------------------------------------------------
\* Notions used to state the properties
\* ------------------------------------------------------------------------

Returned(op) == req.op = op /\ res.ret = "returned"
Succeeded(op) == Returned(op) /\ res.success

\* the arguments the engine requires are present
ParamsGiven == prev.kind # "empty" /\ req.id # NoId

\* indices of the element nodes, in document order
ElemIdx(nodes) ==
    SelectSeq([i \in 1..Len(nodes) |-> i], LAMBDA i : nodes[i].k = "el")

\* a is a proper ancestor of node j
RECURSIVE IsAncestor(_, _, _)
IsAncestor(nodes, a, j) ==
    LET p == ParentOf(nodes, j)
    IN  p # 0 /\ (p = a \/ IsAncestor(nodes, a, p))

InSubtree(nodes, t, j) == j = t \/ IsAncestor(nodes, t, j)

\* the text runs that are children of element i, concatenated
RECURSIVE OwnTextFrom(_, _, _)
OwnTextFrom(nodes, i, j) ==
    IF j > Len(nodes) THEN <<>>
    ELSE Concat(IF nodes[j].k = "tx" /\ ParentOf(nodes, j) = i
                THEN nodes[j].s ELSE <<>>,
                OwnTextFrom(nodes, i, j + 1))

OwnText(nodes, i) == OwnTextFrom(nodes, i, i + 1)

\* the ids of all editable- tokens of a document
IdsIn(nodes) ==
    {t.id : t \in {u \in UNION {Range(nodes[i].cls) : i \in 1..Len(nodes)} :
                     u.kind = "ed"}}

\* ------------------------------------------------------------------------
\* C1  Atomicity of the three operations
\* ------------------------------------------------------------------------

\* the failure paths: missing parameters, invalid content, malformed
\* markup, a selector that raises, no element with the marker
FailurePath ==
    \/ ~ParamsGiven
    \/ req.op = "update" /\ req.content.def
       /\ (Trim(req.content.s) = <<>> \/ StrLen(Trim(req.content.s)) > MaxLength)
    \/ prev.kind = "bad"
    \/ BadSelector(req.id)
    \/ Candidates(prev.nodes, req.id) = {}

\* C1: whenever update, duplicate or delete returns a result, a failure path
\* gives success = false; a failed result carries a non-null error and the
\* input source text unchanged (and the caller's text stays that input); a
\* successful result carries a null error.
C1_Atomic ==
    res.ret = "returned" =>
        /\ FailurePath => ~res.success
        /\ ~res.success =>
              /\ res.error # NullErr
              /\ res.error.kind # "null"
              /\ res.mjml = prev
              /\ code = prev
        /\ res.success => res.error = NullErr

\* C1 witness: an internal exception inside a call on a well-formed document
C1_Witness ==
    /\ res.ret = "returned" /\ ~res.success
    /\ prev.kind = "doc" /\ res.error.kind = "exception"
    /\ nops = 2 /\ code = prev

\* ------------------------------------------------------------------------
\* C2  Target selection
\* ------------------------------------------------------------------------

NormText(nodes, i) == normalizeText(Val(textContent(nodes, i)))

\* the element the disambiguation rule names, 0 if there is no candidate
Expected(nodes, id, hint) ==
    LET C == Candidates(nodes, id)
        blank == ~hint.def \/ Trim(hint.s) = <<>>
        eq == {i \in C : NormText(nodes, i) = normalizeText(hint)}
        inc == {i \in C : Includes(NormText(nodes, i), normalizeText(hint))}
    IN  IF C = {} THEN 0
        ELSE IF Cardinality(C) = 1 THEN CHOOSE i \in C : TRUE
        ELSE IF blank THEN Min(C)
        ELSE IF eq # {} THEN Min(eq)
        ELSE IF inc # {} THEN Min(inc)
        ELSE Min(C)

\* C2: the element an operation acts on is the first candidate whose
\* normalized text equals the normalized hint, else the first that contains
\* it, else the first candidate; the only candidate when there is one; the
\* first candidate when the hint is missing or blank.
C2_Selection ==
    res.ret = "returned" /\ res.success =>
        /\ res.target # 0
        /\ res.target = Expected(prev.nodes, req.id, req.hint)

\* C2 witness: several candidates, the first of which contains the hint
\* while a later one equals it, and the later one is acted on
C2_Witness ==
    /\ Succeeded("update")
    /\ Cardinality(Candidates(prev.nodes, req.id)) > 1
    /\ req.hint.def /\ normalizeText(req.hint) # <<>>
    /\ res.target # Min(Candidates(prev.nodes, req.id))
    /\ Includes(NormText(prev.nodes, Min(Candidates(prev.nodes, req.id))),
                normalizeText(req.hint))
    /\ NormText(prev.nodes, res.target) = normalizeText(req.hint)

\* ------------------------------------------------------------------------
\* C3, C4  Frame of updateContent
\* ------------------------------------------------------------------------

\* the same element: tag, attributes (marker included) and depth
SameElement(a, b) ==
    a.k = "el" /\ b.k = "el" /\ a.tag = b.tag /\ a.cls = b.cls
    /\ a.attrs = b.attrs /\ a.d = b.d

\* C3 (as claimed): a successful update changes the text of the selected
\* element only: the elements of the document are the same ones, in the same
\* order and places, with the same attributes; each element but the target
\* keeps its own text; the target holds the new text.
C3_OnlyTargetChanges ==
    Succeeded("update") =>
        LET old == prev.nodes
            new == code.nodes
            oi == ElemIdx(old)
            ni == ElemIdx(new)
        IN  /\ Len(ni) = Len(oi)
            /\ \A r \in 1..Len(oi) :
                  /\ SameElement(old[oi[r]], new[ni[r]])
                  /\ oi[r] # res.target =>
                        OwnText(new, ni[r]) = OwnText(old, oi[r])
                  /\ oi[r] = res.target =>
                        OwnText(new, ni[r]) = Trim(req.content.s)

\* the greeting scenario of the specification: "Hi" and "Hello" both marked
\* editable-greeting, updated to "Hey" with hint "Hello"
C3_GreetingScenario ==
    /\ Succeeded("update") /\ prev = Doc(DocGreetings)
    /\ req.id = g /\ normalizeText(req.hint) = Hello /\ req.content = Val(Hey)
    /\ code = Doc(Mjml \o Leaf(2, "mj-text", <<Ed(g)>>, Hi)
                       \o Leaf(2, "mj-text", <<Ed(g)>>, Hey)
                       \o Leaf(2, "mj-button", <<Ed(h)>>, Hi))

\* elements of the subtree below node t
ElementsBelow(nodes, t) ==
    {j \in 1..Len(nodes) : nodes[j].k = "el" /\ IsAncestor(nodes, t, j)}

\* C4 (as claimed): a successful update removes no element: the document
\* has as many elements afterwards as before, the descendants of the target
\* among them.
C4_DescendantsKept ==
    Succeeded("update") =>
        /\ Len(ElemIdx(code.nodes)) = Len(ElemIdx(prev.nodes))
        /\ Cardinality(ElementsBelow(code.nodes, res.target))
              = Cardinality(ElementsBelow(prev.nodes, res.target))

\* what the update does keep: every element that is not a descendant of the
\* target, with its attributes, place and own text
UpdateFrameOutsideTarget ==
    Succeeded("update") =>
        LET old == prev.nodes
            new == code.nodes
            oi == SelectSeq(ElemIdx(old),
                            LAMBDA j : ~IsAncestor(old, res.target, j))
            ni == ElemIdx(new)
        IN  /\ Len(ni) = Len(oi)
            /\ \A r \in 1..Len(oi) :
                  /\ SameElement(old[oi[r]], new[ni[r]])
                  /\ oi[r] # res.target =>
                        OwnText(new, ni[r]) = OwnText(old, oi[r])

\* ------------------------------------------------------------------------
\* C5  Frame of deleteComponent
\* ------------------------------------------------------------------------

\* position of x in the sequence s, 0 if absent
RankIn(s, x) ==
    IF \E r \in 1..Len(s) : s[r] = x
    THEN CHOOSE r \in 1..Len(s) : s[r] = x
    ELSE 0

NextSibling(nodes, t) ==
    LET later == {j \in ChildrenOf(nodes, ParentOf(nodes, t)) : j > t}
    IN  IF later = {} THEN 0 ELSE Min(later)

\* the nodes of the subtree rooted at t
Subtree(nodes, t) == SubSeq(nodes, t, SubtreeEnd(nodes, t))

\* the document without the subtree rooted at t
Without(nodes, t) ==
    SubSeq(nodes, 1, t - 1) \o SubSeq(nodes, SubtreeEnd(nodes, t) + 1, Len(nodes))

\* C6: a successful duplicate gives the parent of the selected element one
\* more child; the new child is the sibling right after the original and is
\* a copy of the original and its whole subtree (its own marker attribute
\* apart); taking it out again gives back the document as it was.
C6_DuplicateInsertsClone ==
    Succeeded("duplicate") =>
        LET old == prev.nodes
            new == code.nodes
            t == res.target
            c == NextSibling(new, t)
        IN  /\ Cardinality(ChildrenOf(new, ParentOf(old, t)))
                  = Cardinality(ChildrenOf(old, ParentOf(old, t))) + 1
            /\ new[t] = old[t]
            /\ c # 0 /\ c = SubtreeEnd(new, t) + 1
            /\ new[c].k = "el"
            /\ [new[c] EXCEPT !.cls = old[t].cls] = old[t]
            /\ Tail(Subtree(new, c)) = Tail(Subtree(old, t))
            /\ Without(new, c) = old

\* C6 witness: the duplicated element has element descendants and a
\* following sibling
C6_Witness ==
    /\ Succeeded("duplicate")
    /\ ElementsBelow(prev.nodes, res.target) # {}
    /\ NextSibling(prev.nodes, res.target) # 0
    /\ Len(code.nodes) > Len(prev.nodes)

\* C7 (as claimed): after a successful duplicate for logical id L the
\* clone's marker attribute holds the token editable-<newId> and does not
\* hold the token editable-L, and the original's attribute is unchanged.
C7_CloneMarkerReplaced ==
    Succeeded("duplicate") =>
        LET new == code.nodes
            clone == new[NextSibling(new, res.target)]
        IN  /\ Ed(res.newId) \in Range(clone.cls)
            /\ Ed(req.id) \notin Range(clone.cls)
            /\ new[res.target].cls = prev.nodes[res.target].cls

\* C8 (as claimed): the minted id equals no id present in the document at
\* duplication time.
C8_NewIdFresh ==
    Succeeded("duplicate") => res.newId \notin IdsIn(prev.nodes)

\* id ends with -copy-<ts>-<rnd>
EndsWithCopy(id, ts, rnd) ==
    Len(id) >= 4 /\ SubSeq(id, Len(id) - 2, Len(id)) = <<"copy", ts, rnd>>

\* C8 (amended): the minted id is <base>-copy-<timestamp>-<random>, base
\* being the id of the first editable- token of the duplicated element; it
\* differs from that base, and from every id of the document that does not
\* end in -copy-<timestamp>-<random> with this call's clock and random
\* values.
C8_NewIdShape ==
    Succeeded("duplicate") =>
        LET base == FirstEditable(prev.nodes[res.target].cls)[1].id
        IN  /\ res.newId = base \o <<"copy", req.ts, req.rnd>>
            /\ res.newId # base
            /\ \A id \in IdsIn(prev.nodes) :
                  ~EndsWithCopy(id, req.ts, req.rnd) => id # res.newId

\* C8 witness: a second duplication, of a document that already holds an id
\* minted by the first, mints an id not yet present
C8_Witness ==
    /\ Succeeded("duplicate") /\ nops = 2
    /\ \E id \in IdsIn(prev.nodes) : Len(id) >= 4 /\ id # gCopy
    /\ res.newId \notin IdsIn(prev.nodes)

\* ------------------------------------------------------------------------
\* C9, C10  Content validation
\* ------------------------------------------------------------------------

\* the failed result of a validation error that names the limit
TooLongFailure ==
    /\ ~res.success
    /\ res.error.kind = "too_long" /\ res.error.max = MaxLength
    /\ res.mjml = prev /\ code = prev

\* C9 (as claimed): every newContent longer than 5000 characters makes
\* update fail with a validation error naming the limit, the document
\* returned unchanged.  Stated for the calls that nothing else makes fail:
\* well-formed markup and an id that some element carries.
C9_LongContentRejected ==
    req.op = "update" /\ ParamsGiven /\ req.content.def
    /\ prev.kind = "doc" /\ Candidates(prev.nodes, req.id) # {}
    /\ StrLen(req.content.s) > MaxLength
        => res.ret = "returned" /\ TooLongFailure

\* C9 (amended): update fails with the too-long validation error, which
\* names the limit 5000 and the trimmed length, exactly when newContent is
\* longer than 5000 characters after trimming; the document is then
\* returned unchanged.
C9_LongTrimmedContentRejected ==
    Returned("update") /\ ParamsGiven /\ req.content.def =>
        /\ StrLen(Trim(req.content.s)) > MaxLength => TooLongFailure
        /\ res.error.kind = "too_long" =>
              /\ StrLen(Trim(req.content.s)) > MaxLength
              /\ res.error.len = StrLen(Trim(req.content.s))

\* C9 witness: a content of 5001 characters is refused
C9_Witness ==
    /\ Returned("update") /\ prev.kind = "doc"
    /\ req.content.def /\ StrLen(Trim(req.content.s)) = MaxLength + 1
    /\ TooLongFailure /\ res.error.len = MaxLength + 1

\* C10: update refuses a newContent that is empty after trimming; on
\* success the target's text is newContent without its leading and trailing
\* white space; and an invalid content is reported as such whatever the
\* markup and the id are, since it is validated before the markup is parsed
\* and before any element is looked up.
C10_TrimmedContentStored ==
    Returned("update") /\ req.content.def =>
        /\ Trim(req.content.s) = <<>> => ~res.success
        /\ res.success =>
              textContent(code.nodes, res.target) = Trim(req.content.s)
        /\ ParamsGiven /\ Trim(req.content.s) = <<>> =>
              res.error.kind = "empty_content"
        /\ ParamsGiven /\ StrLen(Trim(req.content.s)) > MaxLength =>
              res.error.kind = "too_long"

\* C10 witness: a padded content is stored trimmed
C10_Witness ==
    /\ Succeeded("update")
    /\ Trim(req.content.s) # req.content.s
    /\ textContent(code.nodes, res.target) = Hey

\* C10, second case: a blank content is refused as empty although the
\* markup does not parse
C10_ValidatedBeforeParse ==
    /\ Returned("update") /\ prev.kind = "bad"
    /\ req.content.def /\ Trim(req.content.s) = <<>>
    /\ res.error.kind = "empty_content"

\* ------------------------------------------------------------------------
\* C11  Failures are reported, never raised
\* ------------------------------------------------------------------------

\* C11: every call of update, duplicate and delete ends by returning a
\* result; no call ends with an exception, whatever the markup, the id, the
\* hint and the new content are (a missing new content included).
C11_NeverThrows ==
    req.op # "none" => res.ret = "returned"

\* C11, the calls that do keep the promise: duplicate and delete return a
\* result for every input, and update does whenever its new content is a
\* string or a required argument is missing
C11_ReturnsUnlessContentMissing ==
    req.op # "none" /\ (req.op = "update" /\ ParamsGiven => req.content.def)
        => res.ret = "returned"

\* C11: an update whose new content is missing ends with an exception
C11_ThrowReached ==
    /\ req.op = "update" /\ ParamsGiven /\ ~req.content.def
    /\ res.ret = "threw"
    /\ code = prev

\* ------------------------------------------------------------------------
\* C12  A deleted component is not found again
\* ------------------------------------------------------------------------

\* the last call was given the text that the removal of the only bearer of
\* its logical id had returned
OnDocWithoutBearer ==
    /\ gone.id # NoId
    /\ req.op # "none"
    /\ req.id = gone.id
    /\ prev = gone.doc

Capacity == 50

\* number of steps of the editor component in one run
MaxHistSteps == 5

\* a push that never evicts
pushNoEvict(stack, snap) ==
    IF Len(stack) > 0 /\ stack[Len(stack)].text = snap.text
    THEN stack
    ELSE stack \o <<snap>>

\* a push that does not compare the snapshot with the top
pushAlways(stack, snap) ==
    (IF Len(stack) >= Capacity THEN Tail(stack) ELSE stack) \o <<snap>>

\* pushCodeToHistory: the stack after the call
pushCodeToHistory(stack, snap) ==
    IF Len(stack) > 0 /\ stack[Len(stack)].text = snap.text
    THEN stack
    ELSE (IF Len(stack) >= Capacity THEN Tail(stack) ELSE stack) \o <<snap>>

\* a push that leaves the canUndo state alone
canUndoKept(stack, snap, was) == was

\* pushCodeToHistory: the canUndo state after the call; the early return
\* leaves it as it is
canUndoAfterPush(stack, snap, was) ==
    IF Len(stack) > 0 /\ stack[Len(stack)].text = snap.text
    THEN was
    ELSE TRUE

\* the saved templates: template.id and template.mjml_code
TemplateIds == {"tplA", "tplB"}
TemplateCode(id) == IF id = "tplA" THEN 70 ELSE 80

\* the source texts a successful mutation of text c can return: c itself
\* (the new content is the old one, no image at the index) or another text
Mutations(c) == {c, c + 1}

\* the history that n successful edits of the mounted default document
\* leave, each edit giving a new text
AfterEdits(n) == [i \in 1..n |-> Snapshot(DEFAULT_CODE + i - 1, 0)]

\* the mounted component, before or after a number of edits, with or
\* without a template named in the URL whose fetch has not completed
HistInit ==
    /\ EngineIdle
    /\ NoPreview
    /\ EditorIdle
    /\ \E n \in {0, Capacity - 1, Capacity} :
          /\ hcode = DEFAULT_CODE + n
          /\ codeHistory = AfterEdits(n)
          /\ canUndo = (n > 0)
          /\ hprev = AfterEdits(n)
          /\ hlog = Sources(n)
          /\ urlFetch \in (IF n = 0 THEN {"none", "pending"} ELSE {"none"})
    /\ currentTemplateId = NoTemplate
    /\ docGen = 0
    /\ hact = NoAct
    /\ hsteps = 0

\* the record after a mutation that gave the text t: a mutation after an
\* undo ends the run
AfterMutation(log, t) ==
    IF log.on /\ log.k = 0 THEN [log EXCEPT !.s = Append(@, t)]
    ELSE [log EXCEPT !.on = FALSE]

\* what every step of the component records
Stepped(op, snap) ==
    /\ hsteps < MaxHistSteps
    /\ hsteps' = hsteps + 1
    /\ hprev' = codeHistory
    /\ hact' = [op |-> op, snap |-> snap]
    /\ UNCHANGED <<engineVars, previewVars, editorVars>>

\* handleSaveContent, handleDuplicateComponent, handleDeleteComponent with a
\* successful result: pushCodeToHistory(code); setCode(result.mjml)
MutationSucceeded ==
    \E t \in Mutations(hcode) :
        /\ Stepped("push", Snapshot(hcode, docGen))
        /\ codeHistory' = pushCodeToHistory(codeHistory, Snapshot(hcode, docGen))
        /\ canUndo' = canUndoAfterPush(codeHistory, Snapshot(hcode, docGen), canUndo)
        /\ hcode' = t
        /\ hlog' = AfterMutation(hlog, t)
        /\ UNCHANGED <<currentTemplateId, urlFetch, docGen>>

\* handleImageUploaded with an image index: pushCodeToHistory(prevCode),
\* then the text with the source of the image replaced
ImageUploaded ==
    \E t \in Mutations(hcode) :
        /\ Stepped("image", Snapshot(hcode, docGen))
        /\ codeHistory' = pushCodeToHistory(codeHistory, Snapshot(hcode, docGen))
        /\ canUndo' = canUndoAfterPush(codeHistory, Snapshot(hcode, docGen), canUndo)
        /\ hcode' = t
        /\ hlog' = AfterMutation(hlog, t)
        /\ UNCHANGED <<currentTemplateId, urlFetch, docGen>>

\* an undo that restores the oldest snapshot
UndoOldest ==
    /\ Len(codeHistory) > 0
    /\ Stepped("undo", codeHistory[1])
    /\ hcode' = codeHistory[1].text
    /\ codeHistory' = Tail(codeHistory)
    /\ canUndo' = (Len(codeHistory) - 1 > 0)
    /\ hlog' = [hlog EXCEPT !.k = @ + 1]
    /\ UNCHANGED <<currentTemplateId, urlFetch, docGen>>

\* handleUndo
Undo ==
    /\ Len(codeHistory) > 0
    /\ Stepped("undo", codeHistory[Len(codeHistory)])
    /\ hcode' = codeHistory[Len(codeHistory)].text
    /\ codeHistory' = SubSeq(codeHistory, 1, Len(codeHistory) - 1)
    /\ canUndo' = (Len(codeHistory) - 1 > 0)
    /\ hlog' = [hlog EXCEPT !.k = @ + 1]
    /\ UNCHANGED <<currentTemplateId, urlFetch, docGen>>

\* doLoadTemplate(template)
LoadTemplate ==
    \E id \in TemplateIds :
        /\ Stepped("load", Snapshot(TemplateCode(id), docGen + 1))
        /\ codeHistory' = <<>>
        /\ canUndo' = FALSE
        /\ hcode' = TemplateCode(id)
        /\ hlog' = Recorded(<<TemplateCode(id)>>, 0)
        /\ currentTemplateId' = id
        /\ docGen' = docGen + 1
        /\ UNCHANGED urlFetch

\* doNewTemplate
NewTemplate ==
    /\ Stepped("new", Snapshot(DEFAULT_CODE, docGen + 1))
    /\ codeHistory' = <<>>
    /\ canUndo' = FALSE
    /\ hcode' = DEFAULT_CODE
    /\ hlog' = Recorded(<<DEFAULT_CODE>>, 0)
    /\ currentTemplateId' = NoTemplate
    /\ docGen' = docGen + 1
    /\ UNCHANGED urlFetch

\* the name dialogs of handleFirstTimeCreate and openNewTemplateNameModal,
\* confirmed: the default text is loaded and the history cleared, then
\* doCreateTemplate gives the template its id, or fails and doNewTemplate
\* runs
CreateTemplate ==
    \E id \in {"tplNew", NoTemplate} :
        /\ Stepped("create", Snapshot(DEFAULT_CODE, docGen + 1))
        /\ codeHistory' = <<>>
        /\ canUndo' = FALSE
        /\ hcode' = DEFAULT_CODE
        /\ hlog' = Recorded(<<DEFAULT_CODE>>, 0)
        /\ currentTemplateId' = id
        /\ docGen' = docGen + 1
        /\ UNCHANGED urlFetch

\* handleDeleteTemplate, confirmed and deleted in the store: doNewTemplate
\* when the deleted template is the current one, nothing otherwise
DeleteTemplate ==
    \E id \in TemplateIds :
        IF currentTemplateId = id
        THEN /\ Stepped("deleteCurrent", Snapshot(DEFAULT_CODE, docGen + 1))
             /\ codeHistory' = <<>>
             /\ canUndo' = FALSE
             /\ hcode' = DEFAULT_CODE
             /\ hlog' = Recorded(<<DEFAULT_CODE>>, 0)
             /\ currentTemplateId' = NoTemplate
             /\ docGen' = docGen + 1
             /\ UNCHANGED urlFetch
        ELSE /\ Stepped("deleteOther", Snapshot(hcode, docGen))
             /\ UNCHANGED <<hcode, codeHistory, canUndo, currentTemplateId,
                            urlFetch, docGen, hlog>>

\* loadFromUrl after its await: the fetch of the template named in the URL
\* completes, with the template or without data
UrlTemplateFetched ==
    /\ urlFetch = "pending"
    /\ urlFetch' = "done"
    /\ \E id \in TemplateIds \cup {NoTemplate} :
          IF id = NoTemplate
          THEN /\ Stepped("urlNoData", Snapshot(hcode, docGen))
               /\ UNCHANGED <<hcode, codeHistory, canUndo,
                              currentTemplateId, docGen, hlog>>
          ELSE /\ Stepped("urlLoad", Snapshot(TemplateCode(id), docGen + 1))
               /\ hcode' = TemplateCode(id)
               /\ hlog' = [hlog EXCEPT !.on = FALSE]
               /\ currentTemplateId' = id
               /\ docGen' = docGen + 1
               /\ UNCHANGED <<codeHistory, canUndo>>

HistNext ==
    \/ MutationSucceeded
    \/ ImageUploaded
    \/ Undo
    \/ LoadTemplate
    \/ NewTemplate
    \/ CreateTemplate
    \/ DeleteTemplate
    \/ UrlTemplateFetched

HistorySpec == HistInit /\ [][HistNext]_vars

\* the last step called pushCodeToHistory
Pushed == hact.op \in {"push", "image"}

\* the last step loaded a document
Loaded == hact.op \in {"load", "new", "create", "deleteCurrent", "urlLoad"}

Top(stack) == stack[Len(stack)]

\* ------------------------------------------------------------------------
\* C13  The history does not cross documents
\* ------------------------------------------------------------------------

\* C13: every snapshot of the history was taken from the document that is
\* loaded now: the history is empty after every step that loads a
\* document (a saved template, a new template, the removal of the current
\* template, the template named in the URL), so no undo restores a snapshot
\* of a document loaded before.
C13_HistoryOfLoadedDocument ==
    /\ Loaded => codeHistory = <<>>
    /\ \A i \in 1..Len(codeHistory) : codeHistory[i].doc = docGen
    /\ hact.op = "undo" => hact.snap.doc = docGen

\* C13, the loads that do clear: a saved template selected, a new template
\* started or created, the current template deleted
C13_HandlersClear ==
    hact.op \in {"load", "new", "create", "deleteCurrent"} =>
        /\ codeHistory = <<>>
        /\ ~canUndo

\* C13: the template named in the URL arrives after an edit of the default
\* document, and undo puts the text of the default document into it
C13_UndoAcrossDocuments ==
    /\ hact.op = "undo"
    /\ hact.snap.doc # docGen
    /\ currentTemplateId \in TemplateIds
    /\ hcode = DEFAULT_CODE

\* ------------------------------------------------------------------------
\* C14, C15  Capacity of the history, pushes equal to the top
\* ------------------------------------------------------------------------

\* C14: the history never holds more than 50 snapshots; a push onto 50
\* snapshots of a snapshot other than the top removes the oldest, keeps
\* the other 49 in order and puts the pushed one on top; the 51st of 51
\* different pushes leaves the last 50; and undo takes the most recent
\* snapshot, leaving the ones under it.
C14_CapacityAndEviction ==
    /\ Len(codeHistory) <= Capacity
    /\ Pushed /\ Len(hprev) = Capacity
         /\ Top(hprev).text # hact.snap.text =>
            /\ Len(codeHistory) = Capacity
            /\ SubSeq(codeHistory, 1, Capacity - 1) = Tail(hprev)
            /\ Top(codeHistory) = hact.snap
    /\ Pushed /\ hprev = AfterEdits(Capacity)
         /\ hact.snap.text = DEFAULT_CODE + Capacity =>
            codeHistory = Tail(AfterEdits(Capacity + 1))
    /\ hact.op = "undo" =>
            /\ hact.snap = Top(hprev)
            /\ hcode = Top(hprev).text
            /\ codeHistory = SubSeq(hprev, 1, Len(hprev) - 1)

\* C14 witness: the 51st different snapshot has been pushed, the first is
\* gone
C14_Witness ==
    /\ Pushed
    /\ hprev = AfterEdits(Capacity)
    /\ codeHistory = Tail(AfterEdits(Capacity + 1))
    /\ codeHistory[1].text = DEFAULT_CODE + 1
    /\ Top(codeHistory).text = DEFAULT_CODE + Capacity

\* C14, second case: after the 51 pushes undo restores the 51st snapshot
C14_MostRecentPoppedFirst ==
    /\ hact.op = "undo"
    /\ hprev = Tail(AfterEdits(Capacity + 1))
    /\ hcode = DEFAULT_CODE + Capacity
    /\ Len(codeHistory) = Capacity - 1

\* C15: a push of a snapshot that equals the top of the history changes
\* nothing: the history has the same length and contents, nothing is
\* evicted, also when it holds 50 snapshots, and canUndo stays true.
C15_PushOfTopIsNoOp ==
    Pushed /\ Len(hprev) > 0 /\ Top(hprev).text = hact.snap.text =>
        /\ codeHistory = hprev
        /\ canUndo

\* C15 witness: the top is pushed again onto a history of 50 snapshots
C15_Witness ==
    /\ Pushed
    /\ Len(hprev) = Capacity
    /\ Top(hprev).text = hact.snap.text
    /\ codeHistory = hprev

\* ------------------------------------------------------------------------
\* Declarator, extractor, projector, registry
\* ------------------------------------------------------------------------

\* The value of an mj-class attribute is the sequence of its tokens; two
\* attribute values are the same text when they are the same sequence.

\* <mj-class name="cls" css-class="cls" />
Decl(d, className) ==
    [k |-> "decl", d |-> d, tag |-> "mj-class", cls |-> className,
     attrs |-> "", s |-> <<>>]

\* className.replace(/^editable-/, ''): the first token loses its prefix,
\* the tokens after it stay as they are
StripPrefix(className) ==
    <<Tok("bare", className[1].id)>> \o Tail(className)

\* { className, editableId, content, tagName } of the element at index i
MappingOf(nodes, i) ==
    [className |-> nodes[i].cls,
     editableId |-> StripPrefix(nodes[i].cls),
     content |-> Trim(textContent(nodes, i)),
     tagName |-> nodes[i].tag]

\* extractEditableMappings: one entry for every element whose mj-class
\* attribute starts with editable-, in document order; nothing for a text
\* that does not parse
extractEditableMappings(mjmlSource) ==
    IF mjmlSource.kind # "doc" THEN <<>>
    ELSE LET nodes == mjmlSource.nodes
             Entry(i) ==
                 IF nodes[i].k = "el" /\ nodes[i].cls # <<>>
                       /\ nodes[i].cls[1].kind = "ed"
                 THEN <<MappingOf(nodes, i)>> ELSE <<>>
             Flat[j \in 0..Len(nodes)] ==
                 IF j = 0 THEN <<>> ELSE Flat[j - 1] \o Entry(j)
         IN  Flat[Len(nodes)]

\* [...new Set(list)]: the first occurrence of every value, in order
RECURSIVE Unique(_)
Unique(list) ==
    IF list = <<>> THEN <<>>
    ELSE LET front == Unique(SubSeq(list, 1, Len(list) - 1))
             last == list[Len(list)]
         IN  IF last \in Range(front) THEN front ELSE Append(front, last)

Ws4 == <<R(NL, 1), R(SP, 4)>>
Ws8 == <<R(NL, 1), R(SP, 8)>>

\* the declarations, each after a line break and eight spaces
RECURSIVE Definitions(_, _)
Definitions(classes, d) ==
    IF classes = <<>> THEN <<>>
    ELSE <<Tx(d, Ws8), Decl(d, Head(classes))>>
         \o Definitions(Tail(classes), d)

\* text.replace(tag, tag + inserted): the nodes put behind the start tag
\* of the element at index i
InsertInside(nodes, i, inserted) ==
    MergeText(SubSeq(nodes, 1, i) \o inserted
              \o SubSeq(nodes, i + 1, Len(nodes)))

\* mjmlSource.includes('<mj-attributes>'), '<mj-head>': the elements whose
\* start tag is written so
StartTags(nodes, tag) ==
    {i \in 1..Len(nodes) :
        nodes[i].k = "el" /\ nodes[i].tag = tag /\ nodes[i].attrs = ""}

\* a declarator that always makes a prelude of its own in the head
declareInHeadOnly(mjmlSource) ==
    LET classes == Unique([r \in 1..Len(extractEditableMappings(mjmlSource))
                     |-> extractEditableMappings(mjmlSource)[r].className])
        nodes == mjmlSource.nodes
        heads == StartTags(nodes, "mj-head")
    IN  IF classes = <<>> \/ heads = {} THEN mjmlSource
        ELSE LET hd == Min(heads)
                 d == nodes[hd].d
             IN  Doc(InsertInside(nodes, hd,
                     <<Tx(d + 1, Ws4), El(d + 1, "mj-attributes", <<>>, "")>>
                     \o Definitions(classes, d + 2)
                     \o <<Tx(d + 2, Ws4)>>))

\* ensureEditableClassesInMjml
ensureEditableClassesInMjml(mjmlSource) ==
    LET mappings == extractEditableMappings(mjmlSource)
        uniqueClasses ==
            Unique([r \in 1..Len(mappings) |-> mappings[r].className])
        nodes == mjmlSource.nodes
        preludes == StartTags(nodes, "mj-attributes")
        heads == StartTags(nodes, "mj-head")
    IN  IF mappings = <<>> THEN mjmlSource
        ELSE IF preludes # {}
        THEN LET a == Min(preludes)
             IN  Doc(InsertInside(nodes, a,
                        Definitions(uniqueClasses, nodes[a].d + 1)))
        ELSE IF heads # {}
        THEN LET hd == Min(heads)
                 d == nodes[hd].d
             IN  Doc(InsertInside(nodes, hd,
                     <<Tx(d + 1, Ws4), El(d + 1, "mj-attributes", <<>>, "")>>
                     \o Definitions(uniqueClasses, d + 2)
                     \o <<Tx(d + 2, Ws4)>>))
        ELSE mjmlSource

\* doc.querySelectorAll('.' + className), in document order.  For a class
\* name of several tokens the selector reads as a class followed by
\* descendant element names, and no element of a compiled document has
\* such a name.
Selected(nodes, className) ==
    IF Len(className) # 1 THEN {}
    ELSE {i \in 1..Len(nodes) :
            nodes[i].k = "el" /\ className[1] \in Range(nodes[i].cls)}

\* the elements that the inner loop of injectEditableAttributes annotates
\* for one mapping
AnnotatedBy(nodes, mapping) ==
    LET elements == Selected(nodes, mapping.className)
        contentNorm == CollapseWs(Trim(mapping.content))
        elText(i) == CollapseWs(Trim(textContent(nodes, i)))
    IN  {i \in elements :
            \/ elText(i) = contentNorm
            \/ Includes(elText(i), contentNorm)
            \/ Cardinality(elements) = 1}

Max(S) == CHOOSE x \in S : \A y \in S : y <= x

\* a projector that keeps its parsed document between calls: called right
\* after a compile pass it has nothing left to serialize
injectKeepingParser(compiledHtml, mappings) ==
    IF pact = "compile" THEN Html(<<>>) ELSE compiledHtml

\* injectEditableAttributes: every mapping in turn sets data-editable,
\* data-editable-id and data-editable-type on its elements, a later mapping
\* over an earlier one; a selector that is a syntax error ends in the catch
\* block, which returns the compiled document as it was
injectEditableAttributes(compiledHtml, mappings) ==
    LET nodes == compiledHtml.nodes
        By(i) == {r \in 1..Len(mappings) : i \in AnnotatedBy(nodes, mappings[r])}
    IN  IF mappings = <<>> THEN compiledHtml
        ELSE IF \E r \in 1..Len(mappings) :
                   /\ Len(mappings[r].className) = 1
                   /\ BadSelector(mappings[r].className[1].id)
        THEN compiledHtml
        ELSE [nodes |-> nodes,
              ann |-> [i \in 1..Len(nodes) |->
                  IF By(i) = {} THEN compiledHtml.ann[i]
                  ELSE [editable |-> TRUE,
                        id |-> mappings[Max(By(i))].editableId,
                        type |-> IF mappings[Max(By(i))].tagName = "mj-button"
                                 THEN "button" ELSE "text",
                        index |-> compiledHtml.ann[i].index]]]

\* doc.querySelectorAll('[data-editable="true"]'), in document order
EditableElements(html) ==
    SelectSeq([i \in 1..Len(html.nodes) |-> i],
              LAMBDA i : html.ann[i].editable)

\* !editableId : the attribute is missing or empty
NoEditableId(id) == id = <<>> \/ id = <<Tok("bare", NoId)>>

\* idxAttr != null ? parseInt(idxAttr, 10) : domIndex
IndexOf(html, i, domIndex) ==
    IF html.ann[i].index # NoIndex THEN html.ann[i].index ELSE domIndex

\* parseEditableComponents: the registry; node is the element the entry
\* was read from
parseEditableComponents(html) ==
    LET elements == EditableElements(html)
        Entry(p) ==
            IF NoEditableId(html.ann[elements[p]].id) THEN <<>>
            ELSE <<[id |-> html.ann[elements[p]].id,
                    type |-> html.ann[elements[p]].type,
                    tagName |-> html.nodes[elements[p]].tag,
                    content |-> Trim(textContent(html.nodes, elements[p])),
                    index |-> IndexOf(html, elements[p], p - 1),
                    node |-> elements[p]]>>
        Flat[j \in 0..Len(elements)] ==
            IF j = 0 THEN <<>> ELSE Flat[j - 1] \o Entry(j)
    IN  Flat[Len(elements)]

\* the click listener of the user-mode script on the p-th editable element:
\* the message it posts
ClickMessage(html, p) ==
    LET i == EditableElements(html)[p]
    IN  [editableId |-> html.ann[i].id,
         editableIndex |-> IndexOf(html, i, p - 1),
         node |-> i]

\* handleMessage, EDITABLE_COMPONENT_CLICKED: the component with the index
\* of the message, else the component with its id; 0 when there is none
FindComponent(components, message) ==
    LET byIndex == {c \in 1..Len(components) :
                      components[c].index = message.editableIndex}
        byId == {c \in 1..Len(components) :
                      components[c].id = message.editableId}
    IN  IF byIndex # {} THEN Min(byIndex)
        ELSE IF byId # {} THEN Min(byId)
        ELSE 0

\* ------------------------------------------------------------------------
\* Source texts and what the compiler makes of them
\* handleEditComponent: what Edit opens for the selected component, the
\* image widget for type 'image', the inline editor otherwise
handleEditComponent(component) ==
    IF component.type = "image" THEN "widget" ELSE "editor"

\* ------------------------------------------------------------------------

\* number of steps of the preview in one run
MaxPreviewSteps == 3

HeadBody(head, body) ==
    Mjml \o <<El(2, "mj-head", <<>>, "")>> \o head
         \o <<El(2, "mj-body", <<>>, "")>> \o body

Page(body) == <<El(1, "html", <<>>, ""), El(2, "body", <<>>, "")>> \o body

\* a head without a prelude; two elements share a marker, the text of the
\* one is contained in the text of the other
SrcShared ==
    HeadBody(Leaf(3, "mj-title", <<>>, Hey),
             Leaf(3, "mj-text", <<Ed(g)>>, Hi)
             \o Leaf(3, "mj-text", <<Ed(g)>>, HiThereWide)
             \o Leaf(3, "mj-button", <<Ed(h)>>, Hello))

HtmlShared ==
    Page(Leaf(3, "div", <<Ed(g)>>, Hi)
         \o Leaf(3, "div", <<Ed(g)>>, Indent \o HiThereWide)
         \o <<El(3, "td", <<Ed(h)>>, "")>> \o Leaf(4, "a", <<>>, Hello))

\* a head with a prelude; a marker shared by two elements, an image
SrcPrelude ==
    HeadBody(<<El(3, "mj-attributes", <<>>, ""), El(4, "mj-all", <<>>, "font")>>,
             Leaf(3, "mj-text", <<Ed(g)>>, Hi)
             \o Leaf(3, "mj-image", <<Ed(h)>>, <<>>)
             \o Leaf(3, "mj-text", <<Ed(g)>>, Hello))

HtmlPrelude ==
    Page(Leaf(3, "div", <<Ed(g)>>, Hi)
         \o <<El(3, "td", <<Ed(h)>>, ""), El(4, "img", <<>>, "src")>>
         \o Leaf(3, "div", <<Ed(g)>>, Hello))

\* body content only, as the editor holds it: no head
SrcNoHead ==
    <<El(1, "mj-section", <<>>, "")>> \o Leaf(2, "mj-text", <<Ed(g)>>, Hi)

HtmlNoHead == Page(Leaf(3, "div", <<>>, Hi))

\* no editable marker
SrcPlain ==
    HeadBody(<<>>,
             Leaf(3, "mj-text", <<Tok("cls", <<"hero">>)>>, Hi)
             \o Leaf(3, "mj-text", <<>>, Hello))

HtmlPlain == Page(Leaf(3, "div", <<>>, Hi) \o Leaf(3, "div", <<>>, Hello))

\* a marker that is declared already; attributes of several tokens
SrcTokens ==
    HeadBody(<<El(3, "mj-attributes", <<>>, ""), Decl(4, <<Ed(g)>>)>>,
             Leaf(3, "mj-text", <<Ed(h), Ed(g)>>, Hi)
             \o Leaf(3, "mj-text", <<Tok("cls", <<"hero">>), Ed(g)>>, Hello)
             \o Leaf(3, "mj-text", <<Ed(g)>>, Hey))

HtmlTokens ==
    Page(Leaf(3, "div", <<Ed(g)>>, Hi)
         \o Leaf(3, "div", <<Ed(g)>>, Hello)
         \o Leaf(3, "div", <<Ed(g)>>, Hey))

\* a marked element that the compiler gives no class
SrcRaw ==
    HeadBody(<<>>,
             Leaf(3, "mj-raw", <<Ed(h)>>, Hi)
             \o Leaf(3, "mj-text", <<Ed(g)>>, Hello))

HtmlRaw == Page(<<Tx(3, Hi)>> \o Leaf(3, "div", <<Ed(g)>>, Hello))

Case(src, html) == [src |-> src, html |-> Html(html)]

PreviewCases ==
    {Case(Doc(SrcShared), HtmlShared), Case(Doc(SrcPrelude), HtmlPrelude),
     Case(Doc(SrcNoHead), HtmlNoHead), Case(Doc(SrcPlain), HtmlPlain),
     Case(Doc(SrcTokens), HtmlTokens), Case(Doc(SrcRaw), HtmlRaw),
     Case(BadCode, <<>>), Case(EmptyCode, <<>>)}

PreviewInit ==
    /\ EngineIdle
    /\ Mounted
    /\ EditorIdle
    /\ \E c \in PreviewCases :
          /\ psrc = c.src
          /\ ppre = c.src
          /\ phtml = c.html
    /\ pruns = 0
    /\ pmaps = <<>>
    /\ preview = Html(<<>>)
    /\ editableComponents = <<>>
    /\ clicked = NoClick
    /\ pact = "none"
    /\ psteps = 0
    /\ plog = {}

\* the declarator applied to the text, which may be its own output
Declare ==
    /\ psteps < MaxPreviewSteps
    /\ psteps' = psteps + 1
    /\ pact' = "declare"
    /\ ppre' = psrc
    /\ psrc' = ensureEditableClassesInMjml(psrc)
    /\ pruns' = pruns + 1
    /\ UNCHANGED <<phtml, pmaps, preview, editableComponents, clicked, plog>>
    /\ UNCHANGED <<engineVars, historyVars, editorVars>>

\* the compile effect in user mode, after mjml2html: the mappings are
\* extracted and projected on the compiled document
CompilePreview ==
    /\ psteps < MaxPreviewSteps
    /\ psteps' = psteps + 1
    /\ pact' = "compile"
    /\ pmaps' = extractEditableMappings(psrc)
    /\ preview' = injectEditableAttributes(phtml, extractEditableMappings(psrc))
    /\ plog' = plog \cup {[src |-> psrc, html |-> phtml, maps |-> pmaps',
                          out |-> preview', run |-> Cardinality(plog)]}
    /\ UNCHANGED <<psrc, ppre, pruns, phtml, editableComponents, clicked>>
    /\ UNCHANGED <<engineVars, historyVars, editorVars>>

\* the effect that parses the preview into the registry
ParseComponents ==
    /\ psteps < MaxPreviewSteps
    /\ psteps' = psteps + 1
    /\ pact' = "parse"
    /\ editableComponents' = parseEditableComponents(preview)
    /\ UNCHANGED <<psrc, ppre, pruns, phtml, pmaps, preview, clicked, plog>>
    /\ UNCHANGED <<engineVars, historyVars, editorVars>>

\* a click on an editable element of the preview that bears an id, and the
\* component the message handler finds for it
Click ==
    \E p \in 1..Len(EditableElements(preview)) :
        LET message == ClickMessage(preview, p)
            c == FindComponent(editableComponents, message)
        IN  /\ ~NoEditableId(message.editableId)
            /\ psteps < MaxPreviewSteps
            /\ psteps' = psteps + 1
            /\ pact' = "click"
            /\ clicked' = [id |-> message.editableId,
                           index |-> message.editableIndex,
                           node |-> message.node,
                           found |-> c # 0, component |-> c]
            /\ UNCHANGED <<psrc, ppre, pruns, phtml, pmaps, preview,
                           editableComponents, plog>>
            /\ UNCHANGED <<engineVars, historyVars, editorVars>>

PreviewNext == Declare \/ CompilePreview \/ ParseComponents \/ Click

PreviewSpec == PreviewInit /\ [][PreviewNext]_vars

\* ------------------------------------------------------------------------
\* C16, C17  The declarator
\* ------------------------------------------------------------------------

\* number of declarations of className in the text
Declared(nodes, className) ==
    Cardinality({i \in 1..Len(nodes) :
                    nodes[i].k = "decl" /\ nodes[i].cls = className})

\* the marker values of a text: the className of its mappings
MarkerValues(source) ==
    {extractEditableMappings(source)[r].className :
        r \in 1..Len(extractEditableMappings(source))}

\* C16: the declarator is idempotent: applied to its own output it returns
\* that output unchanged, and a marker value that the text declares already
\* is not declared again.
C16_DeclareIdempotent ==
    pact = "declare" =>
        /\ pruns >= 2 => psrc = ppre
        /\ \A v \in MarkerValues(ppre) :
              Declared(ppre.nodes, v) >= 1 =>
                 Declared(psrc.nodes, v) = Declared(ppre.nodes, v)

\* C16: the declarator applied to its own output has declared a marker
\* value a second time
C16_DeclaredTwice ==
    /\ pact = "declare" /\ pruns = 2
    /\ psrc # ppre
    /\ \E v \in MarkerValues(ppre) :
          Declared(ppre.nodes, v) = 1 /\ Declared(psrc.nodes, v) = 2

\* nodes lo..hi of new are what the declarator put in: without them the
\* text is the old one, and the declarations among them are children of
\* the element at index parent, one for every marker value
PutIn(old, new, lo, hi, parent) ==
    /\ hi <= Len(new)
    /\ SubSeq(new, 1, lo - 1) \o SubSeq(new, hi + 1, Len(new)) = old.nodes
    /\ \A v \in MarkerValues(old) :
          Cardinality({j \in lo..hi : new[j] = Decl(new[parent].d + 1, v)}) = 1
    /\ \A j \in lo..hi :
          \/ new[j].k = "decl" /\ new[j].cls \in MarkerValues(old)
                /\ ParentOf(new, j) = parent
          \/ new[j].k = "tx" /\ Trim(new[j].s) = <<>>
          \/ j = parent

C17_PreludeMade ==
    /\ pact = "declare" /\ pruns = 1
    /\ StartTags(ppre.nodes, "mj-attributes") = {}
    /\ StartTags(psrc.nodes, "mj-attributes") # {}
    /\ Cardinality(MarkerValues(ppre)) = 2

\* C17, third case: markers but no head, the text is returned as it is
C17_NoHeadUnchanged ==
    /\ pact = "declare"
    /\ MarkerValues(ppre) # {}
    /\ StartTags(ppre.nodes, "mj-head") = {}
    /\ psrc = ppre

\* ------------------------------------------------------------------------
\* C18, C19  The projector, the registry and the interactive layer
\* ------------------------------------------------------------------------

\* the normalized text of a compiled element equals the content snapshot
EqualsSnapshot(nodes, i, mapping) ==
    CollapseWs(Trim(textContent(nodes, i))) = CollapseWs(Trim(mapping.content))

\* C18: of a class that several compiled elements bear, the projector
\* annotates at most one element for one mapping entry, and an element
\* whose text equals the snapshot when there is one.
C18_SingleBestMatch ==
    pact = "compile" =>
        \A r \in 1..Len(pmaps) :
            LET group == Selected(phtml.nodes, pmaps[r].className)
                marked == AnnotatedBy(phtml.nodes, pmaps[r])
            IN  Cardinality(group) > 1 =>
                  /\ Cardinality(marked) <= 1
                  /\ \A i \in marked : preview.ann[i].editable
                  /\ (\E i \in group : EqualsSnapshot(phtml.nodes, i, pmaps[r]))
                        => \A i \in marked :
                              EqualsSnapshot(phtml.nodes, i, pmaps[r])

\* C18: one mapping entry has annotated two elements of its class, one
\* whose text equals the snapshot and one whose text contains it
C18_BothAnnotated ==
    /\ pact = "compile"
    /\ \E r \in 1..Len(pmaps) :
          \E i, j \in AnnotatedBy(phtml.nodes, pmaps[r]) :
              /\ i # j
              /\ EqualsSnapshot(phtml.nodes, i, pmaps[r])
              /\ ~EqualsSnapshot(phtml.nodes, j, pmaps[r])
              /\ preview.ann[i].editable /\ preview.ann[j].editable

\* the registry was parsed from the preview of the current mappings
RegistryCurrent ==
    /\ pmaps # <<>>
    /\ editableComponents = parseEditableComponents(preview)

\* C19: every annotated element has as its index the rank (counted from 0,
\* as the indices are) of a mapping entry that annotated it: the registry
\* entry carries that index, and a click on the element sends it.
C19_IndexIsMappingRank ==
    RegistryCurrent =>
        /\ \A c \in 1..Len(editableComponents) :
              \E r \in 1..Len(pmaps) :
                 /\ editableComponents[c].node \in AnnotatedBy(phtml.nodes, pmaps[r])
                 /\ editableComponents[c].index = r - 1
        /\ pact = "click" =>
              \E r \in 1..Len(pmaps) :
                 /\ clicked.node \in AnnotatedBy(phtml.nodes, pmaps[r])
                 /\ clicked.index = r - 1

\* C19, what does hold: no element bears an index attribute, the index of
\* a registry entry and the index a click sends are both the position of
\* the element among the editable elements of the preview, and the handler
\* finds the registry entry of the clicked element
C19_IndexIsPosition ==
    /\ \A i \in 1..Len(preview.nodes) : preview.ann[i].index = NoIndex
    /\ RegistryCurrent =>
          \A c \in 1..Len(editableComponents) :
              EditableElements(preview)[editableComponents[c].index + 1]
                 = editableComponents[c].node
    /\ RegistryCurrent /\ pact = "click" =>
          /\ clicked.found
          /\ editableComponents[clicked.component].node = clicked.node
          /\ editableComponents[clicked.component].index = clicked.index

\* C19: a click sends an index that is the rank of no mapping entry of the
\* clicked element
C19_IndexOffRank ==
    /\ RegistryCurrent /\ pact = "click"
    /\ clicked.found
    /\ \A r \in 1..Len(pmaps) :
          clicked.node \in AnnotatedBy(phtml.nodes, pmaps[r])
             => clicked.index # r - 1

\* ------------------------------------------------------------------------
\* C20  The extractor
\* ------------------------------------------------------------------------

\* the marker values and logical ids of the entries, in order
Markers(mappings) ==
    [r \in 1..Len(mappings) |->
        <<mappings[r].className, mappings[r].editableId>>]

\* one pair for every distinct editable- token of an attribute value, the
\* token alone and the token without its prefix
RECURSIVE TokenMarkers(_)
TokenMarkers(toks) ==
    IF toks = <<>> THEN <<>>
    ELSE LET front == TokenMarkers(SubSeq(toks, 1, Len(toks) - 1))
             last == toks[Len(toks)]
             pair == <<<<last>>, <<Tok("bare", last.id)>>>>
         IN  IF last.kind = "ed" /\ pair \notin Range(front)
             THEN Append(front, pair) ELSE front

\* the pairs of every element, in document order
RECURSIVE ElementMarkers(_)
ElementMarkers(nodes) ==
    IF nodes = <<>> THEN <<>>
    ELSE (IF Head(nodes).k = "el" THEN TokenMarkers(Head(nodes).cls) ELSE <<>>)
         \o ElementMarkers(Tail(nodes))

\* C20: the extractor emits, in document order, one entry for every
\* distinct editable- token of every element, the marker value being that
\* token and the logical id the token without its prefix; for a text that
\* does not parse it emits nothing.
C20_EntryPerToken ==
    pact = "compile" =>
        Markers(pmaps) = (IF psrc.kind = "doc"
                          THEN ElementMarkers(psrc.nodes) ELSE <<>>)

\* the elements that have an mj-class attribute
Marked(nodes) ==
    {i \in 1..Len(nodes) : nodes[i].k = "el" /\ nodes[i].cls # <<>>}

\* every marked element of the text has one token
SingleTokens(source) ==
    \A i \in 1..Len(source.nodes) : Len(source.nodes[i].cls) <= 1

\* C20, what does hold: the entries are in document order with the text
\* and the tag of their elements, a text that does not parse gives none,
\* and when no attribute has more than one token there is one entry for
\* every marked element
C20_EntryPerElement ==
    pact = "compile" =>
        /\ psrc.kind # "doc" => pmaps = <<>>
        /\ psrc.kind = "doc" /\ SingleTokens(psrc) =>
              Markers(pmaps) = ElementMarkers(psrc.nodes)
        /\ \A r \in 1..Len(pmaps) :
              \E i \in Marked(psrc.nodes) :
                 /\ pmaps[r] = MappingOf(psrc.nodes, i)
                 /\ r > 1 => \E j \in Marked(psrc.nodes) :
                                j < i /\ pmaps[r - 1] = MappingOf(psrc.nodes, j)

\* C20: an element with two editable- tokens has one entry, whose marker
\* value is the whole attribute
C20_WholeAttribute ==
    /\ pact = "compile"
    /\ \E r \in 1..Len(pmaps) :
          /\ Len(pmaps[r].className) = 2
          /\ pmaps[r].className[2].kind = "ed"
    /\ Len(pmaps) < Len(ElementMarkers(psrc.nodes))

\* ------------------------------------------------------------------------
\* C27  The selection inside deleteComponent
\* ------------------------------------------------------------------------

\* C27: the selection written out inside deleteComponent picks the element
\* that findEditableElement picks: on every text a session starts from, for
\* every logical id and every hint (missing and blank hints included); on
\* every text a call was given, for the id and hint of that call (the calls
\* range over every id and hint); and the element a delete removed is the
\* one findEditableElement names.
C27_SameSelection ==
    /\ (nops = 0 /\ code.kind = "doc") =>
          \A id \in Ids \ {NoId} : \A hint \in Hints :
              deleteSelect(code.nodes, id, hint)
                 = findEditableElement(code.nodes, id, hint)
    /\ (nops > 0 /\ prev.kind = "doc") =>
          deleteSelect(prev.nodes, req.id, req.hint)
             = findEditableElement(prev.nodes, req.id, req.hint)
    /\ Succeeded("delete") =>
          res.target = findEditableElement(prev.nodes, req.id, req.hint)

\* C27 witness: a delete among several candidates has removed a candidate
\* that is not the first one, chosen by its text
C27_Witness ==
    /\ Succeeded("delete")
    /\ Cardinality(Candidates(prev.nodes, req.id)) > 1
    /\ res.target # Min(Candidates(prev.nodes, req.id))
    /\ res.target = findEditableElement(prev.nodes, req.id, req.hint)

\* ------------------------------------------------------------------------
\* C28  Duplication and the markers already present
\* ------------------------------------------------------------------------

\* the number of elements whose mj-class holds the token editable-<id>
Bearing(nodes, id) == Cardinality(Candidates(nodes, id))

\* C28: after a successful duplicate, every marker token present in the
\* document before the call is carried by as many elements as before (the
\* duplicated element may have marked descendants or several editable-
\* tokens).
C28_MarkersNotMultiplied ==
    Succeeded("duplicate") =>
        \A id \in IdsIn(prev.nodes) :
            Bearing(code.nodes, id) = Bearing(prev.nodes, id)

\* C28: a duplicate of an element with a marked descendant has left the
\* descendant's marker on one element more than before
C28_DescendantMarkerDoubled ==
    /\ Succeeded("duplicate")
    /\ \E i \in ElementsBelow(prev.nodes, res.target) :
          \E t \in Range(prev.nodes[i].cls) :
              /\ t.kind = "ed"
              /\ Bearing(code.nodes, t.id) > Bearing(prev.nodes, t.id)

\* C28: a duplicate of an element with two editable- tokens has left the
\* second token on one element more than before
C28_SecondTokenDoubled ==
    /\ Succeeded("duplicate")
    /\ ElementsBelow(prev.nodes, res.target) = {}
    /\ \E t \in Range(prev.nodes[res.target].cls) :
          /\ t.kind = "ed"
          /\ Bearing(code.nodes, t.id) = Bearing(prev.nodes, t.id) + 1

\* ------------------------------------------------------------------------
\* C21  Extraction and projection are pure
\* ------------------------------------------------------------------------

KindOfTag(tagName) ==
    IF tagName = "mj-button" THEN "button"
    ELSE IF tagName = "mj-image" THEN "image" ELSE "text"

\* the mapping entry whose annotation the element at index i bears
SourceOf(i) ==
    pmaps[Max({r \in 1..Len(pmaps) : i \in AnnotatedBy(phtml.nodes, pmaps[r])})]

\* C30: the kind that the projector writes on an element is the kind of the
\* source tag of its mapping entry, button, text or image; and Edit on a
\* selected component that comes from an mj-image opens the image widget.
C30_KindReflectsTag ==
    /\ pmaps # <<>> =>
          \A i \in 1..Len(preview.nodes) :
              preview.ann[i].editable =>
                  preview.ann[i].type = KindOfTag(SourceOf(i).tagName)
    /\ RegistryCurrent /\ pact = "click" /\ clicked.found
       /\ SourceOf(clicked.node).tagName = "mj-image"
          => handleEditComponent(editableComponents[clicked.component])
                = "widget"

\* C30: the element of a marked mj-image was clicked, its component has
\* the type text and Edit opens the inline editor
C30_ImageOpensEditor ==
    /\ RegistryCurrent /\ pact = "click" /\ clicked.found
    /\ SourceOf(clicked.node).tagName = "mj-image"
    /\ editableComponents[clicked.component].node = clicked.node
    /\ editableComponents[clicked.component].type = "text"
    /\ handleEditComponent(editableComponents[clicked.component]) = "editor"

\* C30, the two kinds the projector does tell apart: an element from an
\* mj-button has the type button, every other one the type text
C30_ButtonOrText ==
    pmaps # <<>> =>
        \A i \in 1..Len(preview.nodes) :
            preview.ann[i].editable =>
                preview.ann[i].type
                   = (IF SourceOf(i).tagName = "mj-button" THEN "button"
                      ELSE "text")

\* ------------------------------------------------------------------------
\* C26  canUndo
\* ------------------------------------------------------------------------

\* C26: canUndo is true exactly when the history holds a snapshot, after
\* every interleaving of successful mutations, image replacements, undos,
\* loads and new templates.
C26_CanUndoIffHistory == canUndo <=> Len(codeHistory) > 0

\* C26 witness: an undo has taken the last snapshot of a history that a
\* mutation of this session filled, and canUndo is false again
C26_Witness ==
    /\ hact.op = "undo" /\ hsteps >= 2
    /\ Len(hprev) = 1 /\ codeHistory = <<>>
    /\ ~canUndo

\* ------------------------------------------------------------------------
\* The mutation handlers of the editor component
\* ------------------------------------------------------------------------

\* number of handler runs in one session
MaxHandlerSteps == 4

\* the components a click can select: id and content of a registry entry
\* (the registry may be older than the source text)
Components ==
    {[id |-> i, content |-> c] :
        i \in {g, h, absent}, c \in {Val(<<>>), Val(Hi), Val(There)}}

\* the strings the inline editor hands to handleSaveContent
EditorContents == Contents \ {Undefined}

\* the editor in user mode on a source text, nothing selected
HandlerInit ==
    /\ code \in InitCodes
    /\ prev = code
    /\ req = NoReq
    /\ res = NoRes
    /\ nops = 0
    /\ gone = NoneGone
    /\ Mounted
    /\ NoPreview
    /\ EditorIdle

\* a handler that does not look at result.success
HandledUnchecked(request, result) ==
    /\ selectedComponent # NoComponent
    /\ hsteps < MaxHandlerSteps
    /\ hsteps' = hsteps + 1
    /\ prev' = code
    /\ req' = request
    /\ res' = result
    /\ hprev' = codeHistory
    /\ selprev' = selectedComponent
    /\ hact' = [op |-> request.op, snap |-> Snapshot(hcode, docGen)]
    /\ codeHistory' = pushCodeToHistory(codeHistory, Snapshot(code, docGen))
    /\ canUndo' = TRUE
    /\ code' = result.mjml
    /\ selectedComponent' = NoComponent
    /\ UNCHANGED <<nops, gone, hcode, currentTemplateId, urlFetch, docGen,
                   hlog>>
    /\ UNCHANGED <<previewVars, taggerVars, saveVars>>

\* a handler that got result from the engine: on success
\* pushCodeToHistory(code); setCode(result.mjml); setSelectedComponent(null),
\* otherwise a toast only
Handled(request, result) ==
    /\ selectedComponent # NoComponent
    /\ hsteps < MaxHandlerSteps
    /\ hsteps' = hsteps + 1
    /\ prev' = code
    /\ req' = request
    /\ res' = result
    /\ hprev' = codeHistory
    /\ selprev' = selectedComponent
    /\ hact' = [op |-> request.op, snap |-> Snapshot(hcode, docGen)]
    /\ IF result.success
       THEN /\ codeHistory' = pushCodeToHistory(codeHistory, Snapshot(code, docGen))
            /\ canUndo' = canUndoAfterPush(codeHistory, Snapshot(code, docGen),
                                           canUndo)
            /\ code' = result.mjml
            /\ selectedComponent' = NoComponent
       ELSE UNCHANGED <<codeHistory, canUndo, code, selectedComponent>>
    /\ UNCHANGED <<nops, gone, hcode, currentTemplateId, urlFetch, docGen,
                   hlog>>
    /\ UNCHANGED <<previewVars, taggerVars, saveVars>>

\* handleMessage, EDITABLE_COMPONENT_CLICKED: setSelectedComponent(component)
SelectComponent ==
    \E c \in Components :
        /\ hsteps < MaxHandlerSteps
        /\ hsteps' = hsteps + 1
        /\ selprev' = selectedComponent
        /\ selectedComponent' = c
        /\ hprev' = codeHistory
        /\ hact' = [op |-> "select", snap |-> Snapshot(hcode, docGen)]
        /\ UNCHANGED <<engineVars, hcode, codeHistory, canUndo,
                       currentTemplateId, urlFetch, docGen, hlog>>
        /\ UNCHANGED <<previewVars, taggerVars, saveVars>>

handleSaveContent ==
    \E newContent \in EditorContents :
        Handled([op |-> "update", id |-> selectedComponent.id,
                 hint |-> selectedComponent.content, content |-> newContent,
                 ts |-> "", rnd |-> ""],
                updateEditableContent(code, selectedComponent.id, newContent,
                                      selectedComponent.content))

handleDuplicateComponent ==
    \E ts \in {"t1"} : \E rnd \in {"r1"} :
        Handled([op |-> "duplicate", id |-> selectedComponent.id,
                 hint |-> selectedComponent.content, content |-> Undefined,
                 ts |-> ts, rnd |-> rnd],
                duplicateComponent(code, selectedComponent.id,
                                   selectedComponent.content, ts, rnd))

handleDeleteComponent ==
    Handled([op |-> "delete", id |-> selectedComponent.id,
             hint |-> selectedComponent.content, content |-> Undefined,
             ts |-> "", rnd |-> ""],
            deleteComponent(code, selectedComponent.id,
                            selectedComponent.content))

\* handleUndo on the source text of the handlers
handleUndo ==
    /\ Len(codeHistory) > 0
    /\ hsteps < MaxHandlerSteps
    /\ hsteps' = hsteps + 1
    /\ hprev' = codeHistory
    /\ selprev' = selectedComponent
    /\ hact' = [op |-> "undo", snap |-> Snapshot(hcode, docGen)]
    /\ prev' = code
    /\ code' = codeHistory[Len(codeHistory)].text
    /\ codeHistory' = SubSeq(codeHistory, 1, Len(codeHistory) - 1)
    /\ canUndo' = (Len(codeHistory) - 1 > 0)
    /\ selectedComponent' = NoComponent
    /\ UNCHANGED <<req, res, nops, gone, hcode, currentTemplateId, urlFetch,
                   docGen, hlog>>
    /\ UNCHANGED <<previewVars, taggerVars, saveVars>>

HandlerNext ==
    \/ SelectComponent
    \/ handleSaveContent
    \/ handleDuplicateComponent
    \/ handleDeleteComponent
    \/ handleUndo

HandlerSpec == HandlerInit /\ [][HandlerNext]_vars

\* the last step was a mutation handler
Mutated == hact.op \in {"update", "duplicate", "delete"}

\* ------------------------------------------------------------------------
\* C24  The mutation handlers and the engine's result
\* ------------------------------------------------------------------------

\* C24: after a mutation handler, if the engine reported success the
\* source text is the engine's result and the top of the history is the
\* source text from before the call; if the engine reported failure the
\* source text, the history and the selection are what they were.
C24_HandlerFrame ==
    Mutated =>
        /\ res.ret = "returned"
        /\ res.success =>
              /\ code = res.mjml
              /\ codeHistory # <<>> /\ Top(codeHistory).text = prev
              /\ codeHistory = pushCodeToHistory(hprev, Snapshot(prev, docGen))
        /\ ~res.success =>
              /\ code = prev
              /\ codeHistory = hprev
              /\ selectedComponent = selprev

\* C24 witness: a handler has failed on a source text whose history a
\* successful handler had filled, with a component selected
C24_Witness ==
    /\ Mutated /\ ~res.success
    /\ hprev # <<>> /\ codeHistory = hprev
    /\ selectedComponent # NoComponent /\ selectedComponent = selprev
    /\ code = prev

\* ------------------------------------------------------------------------
\* C25  Undo after mutations
\* ------------------------------------------------------------------------

\* a run of n recorded mutations, n at most the capacity, followed by k
\* undos and by no other change of the source text
MutationRun == hlog.on /\ Len(hlog.s) - 1 <= Capacity
RunLength == Len(hlog.s) - 1

\* the source texts the mutations of the run started from, oldest first
PreMutation == SubSeq(hlog.s, 1, RunLength)

\* a list without the entries that equal the entry before them
RECURSIVE Coalesce(_)
Coalesce(list) ==
    IF Len(list) < 2 THEN list
    ELSE IF list[Len(list)] = list[Len(list) - 1]
         THEN Coalesce(SubSeq(list, 1, Len(list) - 1))
         ELSE Append(Coalesce(SubSeq(list, 1, Len(list) - 1)), list[Len(list)])

Texts(stack) == [i \in 1..Len(stack) |-> stack[i].text]

\* C25 (as claimed): an undo right after a successful mutation restores the
\* text from before that mutation; after n mutations the k-th undo restores
\* the source from before the k-th last mutation, and after n undos the
\* history is empty (so a further undo returns at once).
C25_UndoInverse ==
    MutationRun /\ hlog.k >= 1 /\ hlog.k <= RunLength =>
        /\ hcode = hlog.s[RunLength - hlog.k + 1]
        /\ hlog.k = RunLength => codeHistory = <<>>

\* C25 (amended): the history holds the pre-mutation sources with
\* consecutive equal texts once; right after a mutation its top is the
\* text from before that mutation; the k-th undo restores the k-th last
\* entry of that list; when the list is used up the source is the text from
\* before the first mutation and the history is empty.
C25_UndoInverseCoalesced ==
    MutationRun =>
        LET D == Coalesce(PreMutation)
            m == Len(D)
        IN  /\ hlog.k <= m
            /\ Texts(codeHistory) = SubSeq(D, 1, m - hlog.k)
            /\ hlog.k = 0 /\ RunLength > 0 =>
                  Top(codeHistory).text = hlog.s[RunLength]
            /\ hlog.k >= 1 => hcode = D[m - hlog.k + 1]
            /\ hlog.k = m /\ m > 0 =>
                  /\ hcode = hlog.s[1]
                  /\ codeHistory = <<>> /\ ~canUndo

\* C25 witness: two mutations that each changed the text, then two undos,
\* the second of which restored the first source and emptied the history
C25_Witness ==
    /\ MutationRun /\ hsteps = 4
    /\ RunLength = 2 /\ hlog.k = 2
    /\ hlog.s[1] # hlog.s[2] /\ hlog.s[2] # hlog.s[3]
    /\ hact.op = "undo"
    /\ hcode = hlog.s[1] /\ codeHistory = <<>>

\* C25: a handler has succeeded and returned the text it was given (the
\* new content is the content the element had)
C25_MutationWithoutChange ==
    /\ Mutated /\ res.success
    /\ code = prev
    /\ Top(codeHistory).text = code

\* ------------------------------------------------------------------------
\* The tagger, the compiler effect and the mode switch
\* ------------------------------------------------------------------------

\* number of steps of the source text in one run
MaxTaggerSteps == 5

\* the kind of an element the tagger marks, "none" for any other element
EligibleKind(tag) ==
    IF tag = "mj-text" THEN "text"
    ELSE IF tag = "mj-button" THEN "button"
    ELSE IF tag = "mj-image" THEN "image" ELSE "none"

\* an eligible element without a marker attribute
Untagged(nodes, i) ==
    /\ nodes[i].k = "el"
    /\ EligibleKind(nodes[i].tag) # "none"
    /\ nodes[i].cls = <<>>

\* <kind>-<counter>
TagName(kind, counter) ==
    IF kind = "text" THEN <<"text-1", "text-2", "text-3">>[counter]
    ELSE IF kind = "button" THEN <<"button-1", "button-2", "button-3">>[counter]
    ELSE <<"image-1", "image-2", "image-3">>[counter]

\* ensureMjClassOnBodyComponents: every eligible element without a marker
\* gets editable-<kind>-<counter>, the counter of its kind starting at 1 in
\* every call and counting the elements marked by this call; the text is
\* returned as it is when no element was marked
ensureMjClassOnBodyComponents(mjml) ==
    IF mjml.kind # "doc" THEN mjml
    ELSE LET nodes == mjml.nodes
             Counter(i) ==
                 Cardinality({j \in 1..i :
                     /\ Untagged(nodes, j)
                     /\ EligibleKind(nodes[j].tag) = EligibleKind(nodes[i].tag)})
         IN  IF \A i \in 1..Len(nodes) : ~Untagged(nodes, i) THEN mjml
             ELSE Doc([i \in 1..Len(nodes) |->
                     IF Untagged(nodes, i)
                     THEN [nodes[i] EXCEPT !.cls =
                             <<Ed(<<TagName(EligibleKind(nodes[i].tag),
                                            Counter(i))>>)>>]
                     ELSE nodes[i]])

\* code.trim().startsWith('<mjml')
isFullMjml(mjml) ==
    mjml.kind = "doc" /\ mjml.nodes # <<>> /\ mjml.nodes[1].tag = "mjml"

\* body content without a marker
BodyUntagged ==
    <<El(1, "mj-section", <<>>, "")>>
    \o Leaf(2, "mj-text", <<>>, Hi)
    \o Leaf(2, "mj-button", <<>>, Hello)
    \o Leaf(2, "mj-text", <<>>, Hey)

\* body content whose elements are all marked
BodyTagged ==
    <<El(1, "mj-section", <<>>, "")>>
    \o Leaf(2, "mj-text", <<Ed(g)>>, Hi)
    \o Leaf(2, "mj-image", <<Ed(h)>>, <<>>)

\* body content with a marked and an unmarked element
BodyMixed ==
    <<El(1, "mj-section", <<>>, "")>>
    \o Leaf(2, "mj-text", <<Ed(g)>>, Hi)
    \o Leaf(2, "mj-image", <<>>, <<>>)

\* a full document with an unmarked element
FullUntagged ==
    Mjml \o <<El(2, "mj-body", <<>>, "")>> \o Leaf(3, "mj-text", <<>>, Hi)

TaggerDocs ==
    {Doc(BodyUntagged), Doc(BodyTagged), Doc(BodyMixed), Doc(FullUntagged),
     BadCode}

\* the mounted component in admin mode, the compiler effect due, with or
\* without a template named in the URL whose fetch has not completed
TaggerInit ==
    /\ EngineIdle
    /\ NoPreview
    /\ NoSelection
    /\ NoSaving
    /\ hcode = DEFAULT_CODE
    /\ codeHistory = <<>>
    /\ canUndo = FALSE
    /\ currentTemplateId = NoTemplate
    /\ urlFetch \in {"none", "pending"}
    /\ docGen = 0
    /\ hprev = <<>>
    /\ hact = NoAct
    /\ hsteps = 0
    /\ hlog = Sources(0)
    /\ tcode \in TaggerDocs
    /\ isUserMode = FALSE
    /\ pending = TRUE
    /\ tagCalls = 0
    /\ replaced = 0
    /\ tact = TStep("none", FALSE, FALSE)
    /\ tsteps = 0

\* what every step of the source text records and leaves alone
TStepped(op, called, updated) ==
    /\ tsteps < MaxTaggerSteps
    /\ tsteps' = tsteps + 1
    /\ tact' = TStep(op, called, updated)
    /\ UNCHANGED <<engineVars, previewVars, selectionVars, saveVars>>
    /\ UNCHANGED <<hcode, codeHistory, canUndo, currentTemplateId, docGen,
                   hprev, hact, hsteps, hlog>>

\* doLoadTemplate, from the template list of admin mode
TLoadTemplate ==
    \E t \in TaggerDocs :
        /\ ~isUserMode
        /\ TStepped("load", FALSE, FALSE)
        /\ tcode' = t
        /\ pending' = TRUE
        /\ tagCalls' = 0
        /\ replaced' = 0
        /\ UNCHANGED <<isUserMode, urlFetch>>

\* loadFromUrl after its await, in whichever mode the editor is by then
TUrlTemplateFetched ==
    \E t \in TaggerDocs :
        /\ urlFetch = "pending"
        /\ urlFetch' = "done"
        /\ TStepped("urlLoad", FALSE, FALSE)
        /\ tcode' = t
        /\ pending' = TRUE
        /\ tagCalls' = 0
        /\ replaced' = 0
        /\ UNCHANGED isUserMode

\* onChange of the code editor of admin mode: an unmarked element typed at
\* the end of the text
TypeInEditor ==
    /\ ~isUserMode
    /\ tcode.kind = "doc" /\ Len(tcode.nodes) < 8
    /\ TStepped("type", FALSE, FALSE)
    /\ tcode' = Doc(tcode.nodes \o Leaf(1, "mj-text", <<>>, Hi))
    /\ pending' = TRUE
    /\ replaced' = 0
    /\ UNCHANGED <<isUserMode, tagCalls, urlFetch>>

\* handleDeleteComponent of user mode with a successful result
DeleteInUserMode ==
    \E i \in 1..Len(tcode.nodes) :
        /\ isUserMode
        /\ tcode.nodes[i].k = "el" /\ tcode.nodes[i].cls # <<>>
        /\ TStepped("delete", FALSE, FALSE)
        /\ tcode' = Reparse(RemoveChild(tcode.nodes, i))
        /\ pending' = TRUE
        /\ replaced' = 0
        /\ UNCHANGED <<isUserMode, tagCalls, urlFetch>>

\* handleToggleUserMode
handleToggleUserMode ==
    LET transformed == ensureMjClassOnBodyComponents(tcode)
    IN  /\ TStepped("toggle", ~isUserMode, ~isUserMode /\ transformed # tcode)
        /\ tcode' = IF ~isUserMode THEN transformed ELSE tcode
        /\ tagCalls' = IF ~isUserMode THEN tagCalls + 1 ELSE tagCalls
        /\ isUserMode' = ~isUserMode
        /\ pending' = TRUE
        /\ replaced' = 0
        /\ UNCHANGED urlFetch

\* a compiler effect that sets the source text to whatever the tagger
\* returned
CompilerEffectAlwaysSets ==
    LET called == ~isFullMjml(tcode) /\ isUserMode
    IN  /\ pending
        /\ TStepped("compile", called, called)
        /\ tcode' = IF called THEN ensureMjClassOnBodyComponents(tcode) ELSE tcode
        /\ pending' = called
        /\ tagCalls' = IF called THEN tagCalls + 1 ELSE tagCalls
        /\ replaced' = IF called THEN replaced + 1 ELSE replaced
        /\ UNCHANGED <<isUserMode, urlFetch>>

\* the MJML compiler effect, run because code or isUserMode changed: for
\* body content in user mode the tagger is called and, when it returns
\* another text, setCode(transformed) makes the effect due again
CompilerEffect ==
    LET called == ~isFullMjml(tcode) /\ isUserMode
        transformed == IF called THEN ensureMjClassOnBodyComponents(tcode)
                       ELSE tcode
        updated == called /\ transformed # tcode
    IN  /\ pending
        /\ TStepped("compile", called, updated)
        /\ tcode' = transformed
        /\ pending' = updated
        /\ tagCalls' = IF called THEN tagCalls + 1 ELSE tagCalls
        /\ replaced' = IF updated THEN replaced + 1 ELSE replaced
        /\ UNCHANGED <<isUserMode, urlFetch>>

TaggerNext ==
    \/ TLoadTemplate
    \/ TUrlTemplateFetched
    \/ TypeInEditor
    \/ DeleteInUserMode
    \/ handleToggleUserMode
    \/ CompilerEffect

TaggerSpec == TaggerInit /\ [][TaggerNext]_vars

\* ------------------------------------------------------------------------
\* C22  How often the tagger is called
\* ------------------------------------------------------------------------

\* C22: the tagger is called once for every document loaded and not again
\* when the source text of that document changes: since the last load it
\* was called at most once, and once the compiler effect has settled in
\* user mode it was called.
C22_TaggedOncePerLoad ==
    /\ tagCalls <= 1
    /\ isUserMode /\ ~pending => tagCalls = 1

\* C22: the compiler effect has called the tagger again after an element
\* of the loaded document was deleted in user mode
C22_TaggedAgainAfterChange ==
    /\ tact.op = "compile" /\ tact.called
    /\ isUserMode /\ ~pending
    /\ tagCalls >= 3

\* ------------------------------------------------------------------------
\* C23  The effect's replacement of the source text ends
\* ------------------------------------------------------------------------

\* C23: between two changes of the source text from outside, the compiler
\* effect replaces it at most once; the pass after a replacing pass calls
\* the tagger, gets the text it gave and leaves the effect settled; and
\* wherever the effect is settled on body content in user mode the source
\* text is a fixed point of the tagger.
C23_FixedPointAfterOneReplacement ==
    /\ replaced <= 1
    /\ tact.op = "compile" /\ replaced = 1 /\ ~tact.updated =>
          /\ tact.called /\ ~pending
          /\ ensureMjClassOnBodyComponents(tcode) = tcode
    /\ isUserMode /\ ~pending /\ ~isFullMjml(tcode) =>
          ensureMjClassOnBodyComponents(tcode) = tcode

\* C23 witness: a pass has replaced the source text, and the pass it
\* triggered has found nothing to mark
C23_Witness ==
    /\ tact.op = "compile" /\ tact.called /\ ~tact.updated
    /\ replaced = 1 /\ ~pending
    /\ \E i \in 1..Len(tcode.nodes) :
          tcode.nodes[i].cls = <<Ed(<<"text-1">>)>>

\* ------------------------------------------------------------------------
\* Saving and the unsaved-changes flag
\* ------------------------------------------------------------------------

\* number of steps of saving in one run
MaxSaveSteps == 4

\* the component on the unsaved default document or on a saved template
SaveInit ==
    /\ EngineIdle
    /\ NoPreview
    /\ NoSelection
    /\ NoTagging
    /\ \E id \in {NoTemplate, "tplA"} :
          /\ currentTemplateId = id
          /\ hcode = (IF id = NoTemplate THEN DEFAULT_CODE ELSE TemplateCode(id))
    /\ codeHistory = <<>>
    /\ canUndo = FALSE
    /\ urlFetch = "none"
    /\ docGen = 0
    /\ hprev = <<>>
    /\ hact = NoAct
    /\ hsteps = 0
    /\ hlog = Recorded(<<hcode>>, 0)
    /\ originalCodeRef = hcode
    /\ hasUnsavedChanges = FALSE
    /\ saving = NoSave
    /\ autoSaveTimer = FALSE
    /\ sact = "none"
    /\ ssteps = 0

\* what every step of saving records and leaves alone
SStepped(op) ==
    /\ ssteps < MaxSaveSteps
    /\ ssteps' = ssteps + 1
    /\ sact' = op
    /\ UNCHANGED <<engineVars, previewVars, selectionVars, taggerVars>>
    /\ UNCHANGED <<codeHistory, canUndo, urlFetch, docGen, hprev, hact,
                   hsteps, hlog>>

\* the unsaved-changes effect, run because code or currentTemplateId
\* changed: the flag, and whether the auto-save timer is armed afterwards
UnsavedAfterEffect(text, original) == text # original
TimerAfterEffect(text, original, templateId) ==
    text # original /\ templateId # NoTemplate

\* setCode by the editor or a handler: a new text, or the text that
\* originalCodeRef holds
ChangeSource ==
    \E t \in {hcode + 1, originalCodeRef} \ {hcode} :
        /\ SStepped("change")
        /\ hcode' = t
        /\ hasUnsavedChanges' = UnsavedAfterEffect(t, originalCodeRef)
        /\ autoSaveTimer' = TimerAfterEffect(t, originalCodeRef, currentTemplateId)
        /\ UNCHANGED <<originalCodeRef, saving, currentTemplateId>>

\* handleSave(false) up to its await: the update of the current template,
\* or for an unsaved document the name dialog confirmed and doCreateTemplate
\* started
SaveRequested ==
    /\ ~saving.inflight
    /\ SStepped("save")
    /\ autoSaveTimer' = FALSE
    /\ saving' = Request(IF currentTemplateId # NoTemplate THEN "update"
                         ELSE "create", hcode)
    /\ UNCHANGED <<hcode, originalCodeRef, hasUnsavedChanges, currentTemplateId>>

\* the auto-save timer fires: handleSave(true) up to its await
AutoSaveFired ==
    /\ autoSaveTimer /\ ~saving.inflight
    /\ currentTemplateId # NoTemplate
    /\ SStepped("autosave")
    /\ autoSaveTimer' = FALSE
    /\ saving' = Request("update", hcode)
    /\ UNCHANGED <<hcode, originalCodeRef, hasUnsavedChanges, currentTemplateId>>

\* the store has answered without error: originalCodeRef.current = code,
\* setHasUnsavedChanges(false), code being the text of the render that
\* started the request.  After doCreateTemplate the effect runs again for
\* the new currentTemplateId, before or after these two statements.
SaveSucceeded ==
    /\ saving.inflight
    /\ SStepped("saved")
    /\ originalCodeRef' = saving.code
    /\ saving' = NoSave
    /\ IF saving.kind = "create"
       THEN /\ currentTemplateId' = "tplNew"
            /\ hasUnsavedChanges' \in
                  {FALSE, UnsavedAfterEffect(hcode, saving.code)}
            /\ autoSaveTimer' \in
                  {TimerAfterEffect(hcode, saving.code, "tplNew"),
                   TimerAfterEffect(hcode, originalCodeRef, "tplNew")}
       ELSE /\ hasUnsavedChanges' = FALSE
            /\ UNCHANGED <<currentTemplateId, autoSaveTimer>>
    /\ UNCHANGED hcode

\* the store has answered with an error
SaveFailed ==
    /\ saving.inflight
    /\ SStepped("failed")
    /\ saving' = NoSave
    /\ UNCHANGED <<hcode, originalCodeRef, hasUnsavedChanges, autoSaveTimer,
                   currentTemplateId>>

\* doLoadTemplate(template), followed by the effect
SLoadTemplate ==
    \E id \in TemplateIds :
        /\ SStepped("load")
        /\ hcode' = TemplateCode(id)
        /\ originalCodeRef' = TemplateCode(id)
        /\ currentTemplateId' = id
        /\ hasUnsavedChanges' = FALSE
        /\ autoSaveTimer' = FALSE
        /\ UNCHANGED saving

SaveNext ==
    \/ ChangeSource
    \/ SaveRequested
    \/ AutoSaveFired
    \/ SaveSucceeded
    \/ SaveFailed
    \/ SLoadTemplate

SaveSpec == SaveInit /\ [][SaveNext]_vars

\* ------------------------------------------------------------------------
\* C29  The unsaved-changes flag
\* ------------------------------------------------------------------------

\* C29: whenever no save request awaits the store, hasUnsavedChanges is
\* true exactly when the source text differs from originalCodeRef, also
\* after the source text changed while a request was awaiting its response.
C29_UnsavedIffDiffers ==
    ~saving.inflight => (hasUnsavedChanges <=> hcode # originalCodeRef)

\* C29: the current template was saved while the source text changed; the
\* response has arrived, the text differs from the saved one and is shown
\* as saved
C29_EditShownAsSaved ==
    /\ sact = "saved" /\ ~saving.inflight
    /\ currentTemplateId = "tplA"
    /\ hcode # originalCodeRef
    /\ ~hasUnsavedChanges

\* C29: the same with no auto-save armed that would save the text later
C29_EditShownAsSavedForGood ==
    /\ C29_EditShownAsSaved
    /\ ~autoSaveTimer

\* C29, what does hold: the flag is right after every change of the source
\* text and after every load
C29_RightAfterChange ==
    sact \in {"change", "load"} =>
        (hasUnsavedChanges <=> hcode # originalCodeRef)

====
